---- MODULE Spec2Model ----
(***************************************************************************)
(* Volume-breakout detectors of src/vol.                                   *)
(*                                                                         *)
(* Two engines and the batch are modelled.                                 *)
(*  - The "similar-day" engine: TodayFirstVolumeDetector                   *)
(*    (volume_tow.py), RelaxedFirstVolumeStrategy                          *)
(*    (relaxed_first_volume_strategy.py) and StrategyValidator             *)
(*    (strategy_validator.py) run the same pipeline with different         *)
(*    parameters; the variable `variant` says which class was constructed. *)
(*  - The "threshold" engine: VolumeAnomalyWorkflow.analyze_volume_anomaly *)
(*    (volume_anomaly_workflow.py).                                        *)
(* SpecBatch runs the batch of TodayFirstVolumeDetector around the first   *)
(* engine: main, detect_all_first_volume, the pool tasks and their lock.   *)
(*                                                                         *)
(* Number representation.  The code works on Python floats.  Here          *)
(*  - a volume is an integer number of 10k-share lots,                     *)
(*  - a price is an integer number of yuan,                                *)
(*  - a percent change is an integer number of tenths of a percent,        *)
(*  - a mean or a ratio is an exact fraction [n |-> num, d |-> den],       *)
(*    d > 0, compared by cross-multiplication,                             *)
(*  - a score is an integer number of 1/10000 of a point; the              *)
(*    coefficient of variation, the only irrational quantity, is           *)
(*    rounded down to 1/10000 when it enters a score, while the guard      *)
(*    cv <= max_cv is decided exactly on the squares.                      *)
(***************************************************************************)
EXTENDS Integers, Sequences, FiniteSets, TLC

VARIABLES
    variant,              \* which detector class was constructed
    pc,                   \* position of the analysis of the current symbol
    stock_info,           \* the snapshot handed to the analysis
    kline_data,           \* bars returned by get_stock_kline_data
    target_index,         \* StrategyValidator: index of the target day (0-based)
    stable_period,        \* local: the stable window
    recent_period,        \* local: the recent window
    stable_volumes,       \* local: volumes of the stable window that are > 0
    stable_stats,         \* local: stable_avg, stable_cv, stable_max
    today_volume_ratio,   \* local: today_volume / stable_avg
    similar_volume_days,  \* local: count of similar recent days
    recent_max_volume,    \* local: volume behind recent_max_ratio
    scores,               \* local: the four sub-scores and total_score
    detection,            \* value returned by the analysis
    returned_at,          \* the return statement the analysis left through
    first_volume_stocks,  \* accepted detections (shared list)
    processed_count,      \* shared counter
    historical_60,        \* workflow local: the bars before today
    recent_15,            \* workflow local: the last recent_days of them
    strict_threshold,     \* workflow local: today_volume * 0.5
    loose_threshold,      \* workflow local: today_volume * 0.6
    over_strict_days,     \* workflow local: bars of historical_60 above strict_threshold
    over_loose_days,      \* workflow local: bars of historical_60 above loose_threshold
    over_strict_recent,   \* workflow local: bars of recent_15 above strict_threshold
    over_loose_recent,    \* workflow local: bars of recent_15 above loose_threshold
    is_strict_anomaly,    \* workflow local
    is_loose_anomaly,     \* workflow local
    is_recent_breakthrough, \* workflow local
    anomaly_stocks,       \* VolumeAnomalyWorkflow: accepted anomalies (shared list)
    batch_pc,             \* position of the main thread in main / detect_all_first_volume
    run,                  \* number of the batch being run on this instance
    task,                 \* position of the pool task of each symbol
    snapshot,             \* the snapshot submitted for each symbol
    result,               \* what the analysis of each symbol returned
    lock,                 \* self.lock: 0 when free, else the symbol whose task holds it
    count_read,           \* value each task read in self.processed_count += 1
    saved,                \* what main handed to save_results
    interrupted,          \* a KeyboardInterrupt reached the main thread
    filtered_stocks,      \* the symbols of the batch, in the order they are submitted
    submissions,          \* history: tasks submitted on this instance so far
    raised,               \* history: per symbol, whether its request raised
    stocks_at_start,      \* history: first_volume_stocks when the batch began
    count_at_start,       \* history: processed_count when the batch began
    list_pc,              \* get_shanghai_a_stocks: position
    total_pages,          \* get_shanghai_a_stocks: local total_pages
    pages_requested,      \* history: the pages the loop asked the feed for, in order
    all_stocks            \* get_shanghai_a_stocks: the rows collected, by their page

vars == <<variant, pc, stock_info, kline_data, target_index, stable_period,
          recent_period, stable_volumes, stable_stats, today_volume_ratio,
          similar_volume_days, recent_max_volume, scores, detection, returned_at,
          first_volume_stocks, processed_count, historical_60, recent_15,
          strict_threshold, loose_threshold, over_strict_days, over_loose_days,
          over_strict_recent, over_loose_recent, is_strict_anomaly,
          is_loose_anomaly, is_recent_breakthrough, anomaly_stocks, batch_pc, run,
          task, snapshot, result, lock, count_read, saved, interrupted,
          filtered_stocks, submissions, raised, stocks_at_start, count_at_start,
          list_pc, total_pages, pages_requested, all_stocks>>

\* the locals of get_shanghai_a_stocks
listVars == <<list_pc, total_pages, pages_requested, all_stocks>>

\* the main thread, the pool tasks and the lock of a batch
batchVars ==
    <<batch_pc, run, task, snapshot, result, lock, count_read, saved, interrupted,
      filtered_stocks, submissions, raised, stocks_at_start, count_at_start>>

\* the locals and the list of VolumeAnomalyWorkflow
workflowVars ==
    <<historical_60, recent_15, strict_threshold, loose_threshold,
      over_strict_days, over_loose_days, over_strict_recent, over_loose_recent,
      is_strict_anomaly, is_loose_anomaly, is_recent_breakthrough, anomaly_stocks>>

\* the locals and the list of the similar-day detectors
similarVars ==
    <<target_index, stable_period, recent_period, stable_volumes, stable_stats,
      today_volume_ratio, similar_volume_days, recent_max_volume, scores,
      first_volume_stocks>>

(***************************************************************************)
(* Values                                                                  *)
(***************************************************************************)
None == [none |-> TRUE]

Unset == 0 - 1

Frac(a, b) == [n |-> a, d |-> b]

FracLt(x, y) == x.n * y.d < y.n * x.d

FracLe(x, y) == x.n * y.d <= y.n * x.d

FracMul(x, y) == [n |-> x.n * y.n, d |-> x.d * y.d]

Max(a, b) == IF a >= b THEN a ELSE b

Min(a, b) == IF a <= b THEN a ELSE b

RECURSIVE SumSeq(_)
SumSeq(s) == IF s = <<>> THEN 0 ELSE Head(s) + SumSeq(Tail(s))

RECURSIVE SumSqSeq(_)
SumSqSeq(s) == IF s = <<>> THEN 0 ELSE Head(s) * Head(s) + SumSqSeq(Tail(s))

SetMax(S) == CHOOSE m \in S : \A x \in S : x <= m

\* max(seq) of a non-empty sequence
MaxSeq(s) == SetMax({s[i] : i \in 1..Len(s)})

\* floor(sqrt(x)) for lo*lo <= x < hi*hi, by bisection
RECURSIVE IsqrtIn(_, _, _)
IsqrtIn(x, lo, hi) ==
    IF hi - lo <= 1 THEN lo
    ELSE LET mid == (lo + hi) \div 2
         IN  IF mid * mid <= x THEN IsqrtIn(x, mid, hi) ELSE IsqrtIn(x, lo, mid)

Isqrt(x) == IsqrtIn(x, 0, 46340)

\* One score point, and 1.0 of a ratio, in fixed-point units
Unit == 100 * 100

\* floor(num * 10^digits / den) by long division in base 100 (keeps products small)
RECURSIVE ScaledDiv(_, _, _)
ScaledDiv(num, den, pairs) ==
    IF pairs = 0 THEN num \div den
    ELSE (num \div den) * (100 ^ pairs) + ScaledDiv((num % den) * 100, den, pairs - 1)

(***************************************************************************)
(* Python slicing seq[start:stop] with negative indices (0-based, stop     *)
(* excluded, out-of-range indices clipped).                                *)
(***************************************************************************)
PyIndex(len, i) == IF i < 0 THEN Max(0, len + i) ELSE Min(i, len)

PySlice(seq, start, stop) ==
    LET a == PyIndex(Len(seq), start)
        b == PyIndex(Len(seq), stop)
    IN  SubSeq(seq, a + 1, b)

Volumes(period) == [i \in 1..Len(period) |-> period[i].volume]

Dates(period) == {period[i].date : i \in 1..Len(period)}

(***************************************************************************)
(* Parameters set by the constructors                                      *)
(***************************************************************************)
\* detectors that ask the feed for 40 bars
RequestedBarsForty == [tow |-> 40, relaxed |-> 40]

\* get_stock_kline_data(stock_code, days=25) in volume_tow.py, days=20 in
\* relaxed_first_volume_strategy.py
RequestedBars == [tow |-> 25, relaxed |-> 20]

TodayFirstVolumeDetector ==
    [stable_days |-> 20, min_avg_volume |-> Frac(8, 1), max_cv |-> Frac(3, 4),
     today_volume_min_ratio |-> Frac(9, 5), today_volume_max_ratio |-> Frac(4, 1),
     today_change_min |-> 10, today_change_max |-> 80,
     recent_check_days |-> 15, max_similar_days |-> 1,
     min_price |-> 4, max_price |-> 40,
     kline_days |-> RequestedBars.tow, min_kline |-> 22, min_valid |-> Frac(15, 1),
     similar_fraction |-> Frac(4, 5),
     stability_w |-> 30, stability_k |-> 40, first_w |-> 40, first_k |-> 15,
     first_bonus |-> 10,
     volume_ideal |-> <<18, 25>>, volume_ok |-> <<15, 35>>,
     change_ideal |-> <<15, 40>>, change_ok |-> <<10, 60>>,
     score_threshold |-> 60]

RelaxedFirstVolumeStrategy ==
    [stable_days |-> 10, min_avg_volume |-> Frac(4, 5), max_cv |-> Frac(14, 5),
     today_volume_min_ratio |-> Frac(11, 10), today_volume_max_ratio |-> Frac(10, 1),
     today_change_min |-> 2, today_change_max |-> 300,
     recent_check_days |-> 20, max_similar_days |-> 3,
     min_price |-> 3, max_price |-> 150,
     kline_days |-> RequestedBars.relaxed, min_kline |-> 18, min_valid |-> Frac(10, 1),
     similar_fraction |-> Frac(7, 10),
     stability_w |-> 40, stability_k |-> 45, first_w |-> 30, first_k |-> 10,
     first_bonus |-> 0,
     volume_ideal |-> <<15, 25>>, volume_ok |-> <<12, 40>>,
     change_ideal |-> <<10, 50>>, change_ok |-> <<5, 80>>,
     score_threshold |-> 50]

StrategyValidator ==
    [stable_days |-> 15, min_avg_volume |-> Frac(1, 1), max_cv |-> Frac(9, 10),
     today_volume_min_ratio |-> Frac(3, 2), today_volume_max_ratio |-> Frac(5, 1),
     today_change_min |-> 5, today_change_max |-> 200,
     recent_check_days |-> 10, max_similar_days |-> 3,
     min_price |-> 3, max_price |-> 50,
     kline_days |-> 100, min_kline |-> 15 + 10 + 5, min_valid |-> Frac(15 * 8, 10),
     similar_fraction |-> Frac(7, 10),
     stability_w |-> 40, stability_k |-> 45, first_w |-> 30, first_k |-> 10,
     first_bonus |-> 0,
     volume_ideal |-> <<15, 25>>, volume_ok |-> <<12, 40>>,
     change_ideal |-> <<10, 50>>, change_ok |-> <<5, 80>>,
     score_threshold |-> 50]

Variants == {"tow", "relaxed", "validator"}

cfg == CASE variant = "tow" -> TodayFirstVolumeDetector
         [] variant = "relaxed" -> RelaxedFirstVolumeStrategy
         [] OTHER -> StrategyValidator

NeededBars == cfg.stable_days + cfg.recent_check_days + 1

(***************************************************************************)
(* Inputs.  The snapshot and the feed's answer are outside the program;    *)
(* they are drawn from the families below.                                 *)
(***************************************************************************)
MaxExtraBars == 1

MaxZeroDays == 6

MaxSpikeDays == 4

Prices == {2, 10}

Changes == {1, 2, 20, 70}

TodayVolumes == {7, 20, 30, 45}

BaseVolumes == {7, 10}

HighVolumes == {30, 40, 80}

SpikeVolumes == {14, 16, 24}

QuietVolumes == {0, 10}

Snapshots ==
    [code : {"600000"}, current_price : Prices, change_pct : Changes,
     today_volume : TodayVolumes]

\* What the days of the stable window look like: `zeros` halted days, then
\* `high` busy days of volume hv, the rest at volume b.
StablePatterns ==
    [zeros : 0..MaxZeroDays, high : {0}, hv : {40}, b : {10}]
    \cup [zeros : {0}, high : {0}, hv : {40}, b : BaseVolumes]
    \cup [zeros : {0}, high : {3}, hv : HighVolumes, b : {10}]
    \cup [zeros : {0}, high : {1}, hv : {200}, b : {1}]

\* The recent window: the `k` days just before today at volume sv, the rest at rv.
RecentPatterns ==
    [k : {0}, sv : {40}, rv : QuietVolumes]
    \cup [k : 1..MaxSpikeDays, sv : SpikeVolumes, rv : {10}]

\* Volume of the bar j days before the last bar of the feed's answer.
PatternVolume(j, sp, rp, last) ==
    IF j = 0 THEN last
    ELSE IF j <= cfg.recent_check_days
         THEN (IF j <= rp.k THEN rp.sv ELSE rp.rv)
    ELSE IF j <= cfg.recent_check_days + cfg.stable_days
         THEN (IF j - cfg.recent_check_days <= sp.zeros THEN 0
               ELSE IF j - cfg.recent_check_days <= sp.zeros + sp.high THEN sp.hv
               ELSE sp.b)
    ELSE 40

Bars(len, sp, rp, last, close, change) ==
    [i \in 1..len |->
        [date |-> i, volume |-> PatternVolume(len - i, sp, rp, last),
         close |-> close, change_pct |-> change]]

PlainStable == [zeros |-> 0, high |-> 0, hv |-> 40, b |-> 10]

PlainRecent == [k |-> 0, sv |-> 40, rv |-> 10]

ShortLengths == {0, 5, cfg.min_kline, cfg.kline_days, NeededBars - 1}

FullLength == Max(NeededBars, cfg.min_kline + 1)

ExtraLengths == {FullLength + e : e \in 1..MaxExtraBars}

\* The feed's possible answers, as (length, stable pattern, recent pattern);
\* length 0 is the answer [] of a failed request.
FeedShapes ==
    ((ShortLengths \cup ExtraLengths) \X {PlainStable} \X {PlainRecent})
    \cup ({FullLength} \X StablePatterns \X RecentPatterns)

\* The feed's answer of shape `shape` for a symbol whose snapshot is `info`
FeedAnswer(shape, info) ==
    Bars(shape[1], shape[2], shape[3], info.today_volume, info.current_price,
         info.change_pct)

(***************************************************************************)
(* Stages of the analysis, as the code computes them                       *)
(***************************************************************************)

\* volume_tow.py 329-333: the base filter on the snapshot
BaseFilterPasses(info) ==
    ~(\/ info.current_price < cfg.min_price
      \/ info.current_price > cfg.max_price
      \/ info.change_pct < cfg.today_change_min
      \/ info.change_pct > cfg.today_change_max
      \/ FracLt(Frac(info.today_volume, 1), cfg.min_avg_volume))

\* an off-by-one slice that lets today's bar into the recent window
RecentSliceWithToday(kline) == PySlice(kline, 0 - cfg.recent_check_days, Len(kline))

\* recent_period = kline_data[-(recent_check_days+1):-1]
RecentSlice(kline) == PySlice(kline, 0 - (cfg.recent_check_days + 1), 0 - 1)

\* stable_period = kline_data[-(stable_days+recent_check_days+1):-(recent_check_days+1)]
StableSlice(kline) ==
    PySlice(kline, 0 - (cfg.stable_days + cfg.recent_check_days + 1),
            0 - (cfg.recent_check_days + 1))

\* today_data = kline_data[-1]
TodaySlice(kline) == PySlice(kline, Len(kline) - 1, Len(kline))

\* the window-length check left out
WindowNeverTooShort(stable, recent) == FALSE

\* len(stable_period) < stable_days or len(recent_period) < recent_check_days
WindowTooShort(stable, recent) ==
    Len(stable) < cfg.stable_days \/ Len(recent) < cfg.recent_check_days

\* [d['volume'] for d in stable_period if d['volume'] > 0]
PositiveVolumes(period) == SelectSeq(Volumes(period), LAMBDA v : v > 0)

\* one 80% rule for every variant
TooFewValidBelowEighty(vols) == 10 * Len(vols) < 8 * cfg.stable_days

\* len(stable_volumes) < 15  (10 in the relaxed strategy, stable_days * 0.8 in the validator)
TooFewValid(vols) == FracLt(Frac(Len(vols), 1), cfg.min_valid)

Infinity == Frac(1, 0)

\* stable_avg, stable_std / stable_avg (squared), stable_max
StableStats(vols) ==
    LET cnt == Len(vols)
        s1  == SumSeq(vols)
        s2  == SumSqSeq(vols)
        \* statistics.stdev: sample variance (cnt*s2 - s1^2) / (cnt*(cnt-1)); 0 for one sample
        cv2 == IF s1 <= 0 THEN Infinity
               ELSE IF cnt > 1 THEN Frac(cnt * (cnt * s2 - s1 * s1), (cnt - 1) * s1 * s1)
               ELSE Frac(0, 1)
    IN  [stable_avg |-> Frac(s1, cnt),
         cv_squared |-> cv2,
         stable_cv  |-> IF cv2.d = 0 THEN Unset ELSE Isqrt(ScaledDiv(cv2.n, cv2.d, 4)),
         stable_max |-> MaxSeq(vols)]

\* stable_avg < min_avg_volume
TooThin(st) == FracLt(st.stable_avg, cfg.min_avg_volume)

\* the cv check left out of the baseline condition
UnstableNever(st) == FALSE

\* stable_cv > max_cv
Unstable(st) == FracLt(FracMul(cfg.max_cv, cfg.max_cv), st.cv_squared)

\* today_volume / stable_avg if stable_avg > 0 else 0
RatioToAvg(volume, st) ==
    IF st.stable_avg.n > 0
    THEN Frac(volume * st.stable_avg.d, st.stable_avg.n)
    ELSE Frac(0, 1)

\* a band check that forgets the upper end
RatioInBandNoUpper(ratio) == FracLe(cfg.today_volume_min_ratio, ratio)

\* today_volume_min_ratio <= today_volume_ratio <= today_volume_max_ratio
RatioInBand(ratio) ==
    FracLe(cfg.today_volume_min_ratio, ratio) /\ FracLe(ratio, cfg.today_volume_max_ratio)

\* a similar-day test with > in place of >=
IsSimilarStrict(day_volume, st, ratio) ==
    FracLt(FracMul(ratio, cfg.similar_fraction), RatioToAvg(day_volume, st))

\* day_ratio >= today_volume_ratio * 0.8  (0.7 in the relaxed strategy and the validator)
IsSimilar(day_volume, st, ratio) ==
    FracLe(FracMul(ratio, cfg.similar_fraction), RatioToAvg(day_volume, st))

\* the loop over recent_period: similar_volume_days
RECURSIVE CountSimilar(_, _, _)
CountSimilar(vols, st, ratio) ==
    IF vols = <<>> THEN 0
    ELSE (IF IsSimilar(Head(vols), st, ratio) THEN 1 ELSE 0)
         + CountSimilar(Tail(vols), st, ratio)

\* the loop over recent_period: recent_max_ratio starts at 0
RecentMax(vols) == SetMax({0} \cup {vols[i] : i \in 1..Len(vols)})

\* similar_volume_days <= max_similar_days
IsFirstVolume(similar) == similar <= cfg.max_similar_days

\* a stability score without the floor at 0
StabilityScoreUnclamped(st) == cfg.stability_w * Unit - cfg.stability_k * st.stable_cv

\* max(0, 30 - stable_cv * 40); with stable_cv = float('inf') the difference is
\* -inf and the maximum is 0
StabilityScore(st) ==
    IF st.cv_squared.d = 0 THEN 0
    ELSE Max(0, cfg.stability_w * Unit - cfg.stability_k * st.stable_cv)

\* 40 - similar_volume_days * 15, plus max(0, 10 - (recent_max_ratio / today_volume_ratio) * 10)
\* in TodayFirstVolumeDetector
FirstScore(similar, recent_max, st, ratio) ==
    LET base == cfg.first_w * Unit - similar * cfg.first_k * Unit
        rmax == RatioToAvg(recent_max, st)
        quot == ScaledDiv(rmax.n * ratio.d, rmax.d * ratio.n, 2)
    IN  IF cfg.first_bonus = 0 THEN base
        ELSE base + Max(0, cfg.first_bonus * Unit - quot * cfg.first_bonus)

InBand(x10, band) == band[1] <= x10 /\ x10 <= band[2]

\* 20 in the ideal ratio band, 15 in the acceptable band, else 10
VolumeScore(ratio) ==
    IF FracLe(Frac(cfg.volume_ideal[1], 10), ratio) /\ FracLe(ratio, Frac(cfg.volume_ideal[2], 10))
    THEN 20 * Unit
    ELSE IF FracLe(Frac(cfg.volume_ok[1], 10), ratio) /\ FracLe(ratio, Frac(cfg.volume_ok[2], 10))
    THEN 15 * Unit
    ELSE 10 * Unit

\* 10 in the ideal change band, 7 in the acceptable band, else 5
ChangeScore(change) ==
    IF InBand(change, cfg.change_ideal) THEN 10 * Unit
    ELSE IF InBand(change, cfg.change_ok) THEN 7 * Unit
    ELSE 5 * Unit

\* total_score = stability_score + first_score + volume_score + change_score
TotalScore(stability, first, volume, change) == stability + first + volume + change

\* a threshold test that also rejects a total equal to the threshold
BelowOrAtThreshold(total) == total <= cfg.score_threshold * Unit

\* total_score < 60  (50 in the relaxed strategy; score_ok = total_score >= 50 in the validator)
BelowThreshold(total) == total < cfg.score_threshold * Unit

\* the four sub-scores and their sum
Scores(info, st, ratio, similar, recent_max) ==
    LET stability == StabilityScore(st)
        first     == FirstScore(similar, recent_max, st, ratio)
        volume    == VolumeScore(ratio)
        change    == ChangeScore(info.change_pct)
    IN  [stability_score |-> stability,
         first_score |-> first,
         volume_score |-> volume,
         change_score |-> change,
         total_score |-> TotalScore(stability, first, volume, change)]

\* detection_result = {...}  (name, turnover and kline_data are copied from the inputs)
DetectionResult(info, st, ratio, similar, recent_max, sc) ==
    [code |-> info.code,
     current_price |-> info.current_price,
     today_change |-> info.change_pct,
     today_volume |-> info.today_volume,
     today_volume_ratio |-> ratio,
     stable_avg_volume |-> st.stable_avg,
     stable_cv |-> st.stable_cv,
     stable_max_volume |-> st.stable_max,
     recent_max_ratio |-> RatioToAvg(recent_max, st),
     similar_volume_days |-> similar,
     quality_score |-> sc.total_score,
     stability_score |-> sc.stability_score,
     first_score |-> sc.first_score,
     volume_score |-> sc.volume_score,
     change_score |-> sc.change_score]

(***************************************************************************)
(* StrategyValidator works on the bars up to a target day                  *)
(***************************************************************************)

\* historical_data = kline_data[:target_index + 1]
HistoricalData(kline, t) == PySlice(kline, 0, t + 1)

\* target_day_data = historical_data[-1], read as the snapshot of the target day
TargetDayInfo(kline, t) ==
    LET day == kline[t + 1]
    IN  [code |-> "600000", current_price |-> day.close, change_pct |-> day.change_pct,
         today_volume |-> day.volume]

\* required_history = stable_days + recent_check_days + 5; target_index < required_history
HistoryTooShort(t) == t < cfg.min_kline

\* before_target = historical_data[:-1]
BeforeTarget(kline, t) == PySlice(HistoricalData(kline, t), 0, 0 - 1)

ValidatorStableStart(before) == (Len(before) - cfg.recent_check_days) - cfg.stable_days

ValidatorStableEnd(before) == Len(before) - cfg.recent_check_days

\* stable_period = before_target[stable_start_index:stable_end_index]
ValidatorStableSlice(before) ==
    SubSeq(before, ValidatorStableStart(before) + 1, ValidatorStableEnd(before))

\* recent_period = before_target[recent_start_index:]
ValidatorRecentSlice(before) ==
    SubSeq(before, (Len(before) - cfg.recent_check_days) + 1, Len(before))

(***************************************************************************)
(* State machine of one analysis                                           *)
(***************************************************************************)
\* Tasks submitted to the pools of one detector instance, over all its batches
MaxSubmissions == 3

\* The symbols of the stock list, by the last digit of their code
Symbols == {1, 2}

\* get_shanghai_a_stocks has not been called
ListNotFetched ==
    /\ list_pc = "call"
    /\ total_pages = 0
    /\ pages_requested = <<>>
    /\ all_stocks = <<>>

\* save_results was not called, or returned None for an empty list
NoSave == [called |-> FALSE, stocks |-> <<>>]

\* __init__: no batch has run, nothing is submitted, the lock is free
BatchConstructed ==
    /\ batch_pc = "constructed"
    /\ run = 0
    /\ task = [s \in Symbols |-> "unsubmitted"]
    /\ snapshot = [s \in Symbols |-> None]
    /\ result = [s \in Symbols |-> None]
    /\ lock = 0
    /\ count_read = [s \in Symbols |-> 0]
    /\ saved = NoSave
    /\ interrupted = FALSE
    /\ filtered_stocks = <<>>
    /\ submissions = 0
    /\ raised = [s \in Symbols |-> FALSE]
    /\ stocks_at_start = <<>>
    /\ count_at_start = 0

Failure == IF variant = "validator" THEN [valid |-> FALSE] ELSE None

Init ==
    /\ variant \in Variants
    /\ pc = "start"
    /\ stock_info = None
    /\ kline_data = <<>>
    /\ target_index = Unset
    /\ stable_period = <<>>
    /\ recent_period = <<>>
    /\ stable_volumes = <<>>
    /\ stable_stats = None
    /\ today_volume_ratio = None
    /\ similar_volume_days = Unset
    /\ recent_max_volume = Unset
    /\ scores = None
    /\ detection = None
    /\ returned_at = "running"
    /\ first_volume_stocks = <<>>
    /\ processed_count = 0
    /\ historical_60 = <<>>
    /\ recent_15 = <<>>
    /\ strict_threshold = None
    /\ loose_threshold = None
    /\ over_strict_days = <<>>
    /\ over_loose_days = <<>>
    /\ over_strict_recent = <<>>
    /\ over_loose_recent = <<>>
    /\ is_strict_anomaly = FALSE
    /\ is_loose_anomaly = FALSE
    /\ is_recent_breakthrough = FALSE
    /\ anomaly_stocks = <<>>
    /\ BatchConstructed
    /\ ListNotFetched

Return(point, value) ==
    /\ pc' = "returned"
    /\ returned_at' = point
    /\ detection' = value

Goto(stage) ==
    /\ pc' = stage
    /\ UNCHANGED <<returned_at, detection>>

\* analyze_today_first_volume / analyze_stock entry: read the snapshot, base filter
AnalyzeStart(info) ==
    /\ pc = "start"
    /\ variant # "validator"
    /\ stock_info' = info
    /\ IF BaseFilterPasses(info) THEN Goto("fetch") ELSE Return("BaseFilter", Failure)
    /\ UNCHANGED <<listVars, batchVars, variant, kline_data, target_index, stable_period, recent_period,
                   stable_volumes, stable_stats, today_volume_ratio,
                   similar_volume_days, recent_max_volume, scores, first_volume_stocks,
                   processed_count, workflowVars>>

\* kline_data = self.get_stock_kline_data(stock_code, days=25)
GetKline(kline) ==
    /\ pc = "fetch"
    /\ variant # "validator"
    /\ kline_data' = kline
    /\ Goto("partition")
    /\ UNCHANGED <<listVars, batchVars, variant, stock_info, target_index, stable_period, recent_period,
                   stable_volumes, stable_stats, today_volume_ratio,
                   similar_volume_days, recent_max_volume, scores, first_volume_stocks,
                   processed_count, workflowVars>>

\* the length check on the answer and the split into stable / recent / today
Partition ==
    /\ pc = "partition"
    /\ variant # "validator"
    /\ IF Len(kline_data) < cfg.min_kline
       THEN /\ Return("TooFewBars", Failure)
            /\ UNCHANGED <<stable_period, recent_period>>
       ELSE /\ recent_period' = RecentSlice(kline_data)
            /\ stable_period' = StableSlice(kline_data)
            /\ IF WindowTooShort(stable_period', recent_period')
               THEN Return("WindowTooShort", Failure)
               ELSE Goto("stability")
    /\ UNCHANGED <<listVars, batchVars, variant, stock_info, kline_data, target_index, stable_volumes,
                   stable_stats, today_volume_ratio, similar_volume_days,
                   recent_max_volume, scores, first_volume_stocks, processed_count,
                   workflowVars>>

\* step 1: the stable period's statistics and the baseline checks
StabilityAnalysis ==
    /\ pc = "stability"
    /\ stable_volumes' = PositiveVolumes(stable_period)
    /\ IF TooFewValid(stable_volumes')
       THEN /\ Return("TooFewValid", Failure)
            /\ UNCHANGED stable_stats
       ELSE /\ stable_stats' = StableStats(stable_volumes')
            /\ IF TooThin(stable_stats') \/ Unstable(stable_stats')
               THEN Return("BaselineRejected", Failure)
               ELSE Goto("ratio")
    /\ UNCHANGED <<listVars, batchVars, variant, stock_info, kline_data, target_index, stable_period,
                   recent_period, today_volume_ratio, similar_volume_days,
                   recent_max_volume, scores, first_volume_stocks, processed_count,
                   workflowVars>>

\* step 2: today's volume ratio must lie in the band
VolumeRatioCheck ==
    /\ pc = "ratio"
    /\ today_volume_ratio' = RatioToAvg(stock_info.today_volume, stable_stats)
    /\ IF RatioInBand(today_volume_ratio')
       THEN Goto("first")
       ELSE Return("VolumeRatioOutOfRange", Failure)
    /\ UNCHANGED <<listVars, batchVars, variant, stock_info, kline_data, target_index, stable_period,
                   recent_period, stable_volumes, stable_stats, similar_volume_days,
                   recent_max_volume, scores, first_volume_stocks, processed_count,
                   workflowVars>>

\* step 3: scan the recent period for similar days
FirstVolumeCheck ==
    /\ pc = "first"
    /\ recent_period' = IF variant = "validator"
                        THEN ValidatorRecentSlice(BeforeTarget(kline_data, target_index))
                        ELSE recent_period
    /\ similar_volume_days' =
           CountSimilar(Volumes(recent_period'), stable_stats, today_volume_ratio)
    /\ recent_max_volume' = RecentMax(Volumes(recent_period'))
    /\ IF IsFirstVolume(similar_volume_days')
       THEN Goto("score")
       ELSE Return("NotFirstOccurrence", Failure)
    /\ UNCHANGED <<listVars, batchVars, variant, stock_info, kline_data, target_index, stable_period,
                   stable_volumes, stable_stats, today_volume_ratio, scores,
                   first_volume_stocks, processed_count, workflowVars>>

\* step 4: the quality score and the final decision
Score ==
    /\ pc = "score"
    /\ scores' = Scores(stock_info, stable_stats, today_volume_ratio,
                        similar_volume_days, recent_max_volume)
    /\ IF BelowThreshold(scores'.total_score)
       THEN Return("ScoreBelowThreshold", Failure)
       ELSE Return("Accepted",
                   IF variant = "validator" THEN [valid |-> TRUE]
                   ELSE DetectionResult(stock_info, stable_stats, today_volume_ratio,
                                        similar_volume_days, recent_max_volume, scores'))
    /\ UNCHANGED <<listVars, batchVars, variant, stock_info, kline_data, target_index, stable_period,
                   recent_period, stable_volumes, stable_stats, today_volume_ratio,
                   similar_volume_days, recent_max_volume, first_volume_stocks,
                   processed_count, workflowVars>>

\* process_single_stock after the analysis: count the symbol, append a detection
RecordResult ==
    /\ pc = "returned"
    /\ variant # "validator"
    /\ processed_count' = processed_count + 1
    /\ first_volume_stocks' = IF detection # None
                              THEN Append(first_volume_stocks, detection)
                              ELSE first_volume_stocks
    /\ pc' = "done"
    /\ UNCHANGED <<listVars, batchVars, variant, stock_info, kline_data, target_index, stable_period,
                   recent_period, stable_volumes, stable_stats, today_volume_ratio,
                   similar_volume_days, recent_max_volume, scores, detection,
                   returned_at, workflowVars>>

\* validate_stock_on_date: fetch the bars
ValidatorGetKline(kline) ==
    /\ pc = "start"
    /\ variant = "validator"
    /\ kline_data' = kline
    /\ IF kline = <<>> THEN Return("FeedError", Failure) ELSE Goto("locate")
    /\ UNCHANGED <<listVars, batchVars, variant, stock_info, target_index, stable_period, recent_period,
                   stable_volumes, stable_stats, today_volume_ratio,
                   similar_volume_days, recent_max_volume, scores, first_volume_stocks,
                   processed_count, workflowVars>>

\* validate_stock_on_date: find the target day (t = Unset: no bar within 7 days
\* of the target date) and check the history before it
LocateTarget(t) ==
    /\ pc = "locate"
    /\ target_index' = t
    /\ IF t = Unset THEN Return("NoTargetDate", Failure)
       ELSE IF HistoryTooShort(t) THEN Return("TooFewBars", Failure)
       ELSE Goto("base")
    /\ UNCHANGED <<listVars, batchVars, variant, stock_info, kline_data, stable_period, recent_period,
                   stable_volumes, stable_stats, today_volume_ratio,
                   similar_volume_days, recent_max_volume, scores, first_volume_stocks,
                   processed_count, workflowVars>>

\* _analyze_historical_data: base conditions on the target day, then the stable window
ValidatorAnalyze ==
    /\ pc = "base"
    /\ stock_info' = TargetDayInfo(kline_data, target_index)
    /\ IF ~BaseFilterPasses(stock_info')
       THEN /\ Return("BaseFilter", Failure)
            /\ UNCHANGED stable_period
       ELSE LET before == BeforeTarget(kline_data, target_index)
            IN  IF ValidatorStableStart(before) < 0
                   \/ ValidatorStableEnd(before) <= ValidatorStableStart(before)
                THEN /\ Return("WindowTooShort", Failure)
                     /\ UNCHANGED stable_period
                ELSE /\ stable_period' = ValidatorStableSlice(before)
                     /\ Goto("stability")
    /\ UNCHANGED <<listVars, batchVars, variant, kline_data, target_index, recent_period,
                   stable_volumes, stable_stats, today_volume_ratio,
                   similar_volume_days, recent_max_volume, scores, first_volume_stocks,
                   processed_count, workflowVars>>

TargetChoices(kline) == {Len(kline) - 1, Len(kline) - 2, Unset}

Next ==
    \/ pc = "start" /\ \E info \in Snapshots : AnalyzeStart(info)
    \/ pc = "fetch" /\ \E shape \in FeedShapes : GetKline(FeedAnswer(shape, stock_info))
    \/ Partition
    \/ StabilityAnalysis
    \/ VolumeRatioCheck
    \/ FirstVolumeCheck
    \/ Score
    \/ RecordResult
    \/ pc = "start" /\ variant = "validator" /\ \E info \in Snapshots :
          \E shape \in FeedShapes : ValidatorGetKline(FeedAnswer(shape, info))
    \/ pc = "locate" /\ \E t \in TargetChoices(kline_data) : LocateTarget(t)
    \/ ValidatorAnalyze

Spec == Init /\ [][Next]_vars

(***************************************************************************)
(* VolumeAnomalyWorkflow: the threshold engine                             *)
(***************************************************************************)
VolumeAnomalyWorkflow ==
    [strict_threshold |-> Frac(1, 2), loose_threshold |-> Frac(3, 5),
     recent_days |-> 15, min_volume |-> 5, min_change_pct |-> 3,
     kline_days |-> 61, max_loose_days |-> 2, max_recent_strict_days |-> 1]

\* today_volume * self.strict_threshold
ThresholdOf(today_volume, fraction) == Frac(today_volume * fraction.n, fraction.d)

\* a breach test with >= in place of >
IsOverOrEqual(day, threshold) == FracLe(threshold, Frac(day.volume, 1))

\* d['volume'] > threshold
IsOver(day, threshold) == FracLt(threshold, Frac(day.volume, 1))

\* [d for d in period if d['volume'] > threshold]
OverDays(period, threshold) == SelectSeq(period, LAMBDA d : IsOver(d, threshold))

\* historical_60 = kline_data[:-1]
HistoricalSlice(kline) == PySlice(kline, 0, 0 - 1)

\* recent_15 = historical_60[-self.recent_days:]
RecentDaysSlice(historical) ==
    PySlice(historical, 0 - VolumeAnomalyWorkflow.recent_days, Len(historical))

\* a strict mode that tolerates two breaches
StrictAnomalyUpToTwo(overStrict) == Len(overStrict) <= 2

\* is_strict_anomaly = len(over_strict_days) == 0
StrictAnomaly(overStrict) == Len(overStrict) = 0

\* a loose mode with `or` in place of `and`
LooseAnomalyEither(overLoose, overStrictRecent) ==
    \/ Len(overLoose) <= VolumeAnomalyWorkflow.max_loose_days
    \/ Len(overStrictRecent) <= VolumeAnomalyWorkflow.max_recent_strict_days

\* is_loose_anomaly = len(over_loose_days) <= 2 and len(over_strict_recent) <= 1
LooseAnomaly(overLoose, overStrictRecent) ==
    /\ Len(overLoose) <= VolumeAnomalyWorkflow.max_loose_days
    /\ Len(overStrictRecent) <= VolumeAnomalyWorkflow.max_recent_strict_days

\* a recent-breakthrough mode that asks for exactly one recent breach
RecentBreakthroughAfterOne(overStrictRecent) == Len(overStrictRecent) = 1

\* is_recent_breakthrough = len(over_strict_recent) == 0
RecentBreakthrough(overStrictRecent) == Len(overStrictRecent) = 0

\* is_anomaly = is_strict_anomaly or is_loose_anomaly or is_recent_breakthrough
IsAnomaly(strict, loose, recent) == strict \/ loose \/ recent

\* breakthrough_score: +50 strict, +30 recent breakthrough, +20 loose
BreakthroughScore(strict, loose, recent) ==
    ((IF strict THEN 50 ELSE 0) + (IF recent THEN 30 ELSE 0) + (IF loose THEN 20 ELSE 0))
    * Unit

\* a volume score that grows with today's volume itself
AnomalyVolumeScorePerLot(today_volume, threshold) == Min(30 * Unit, today_volume * Unit)

\* volume_score = min(30, (today_volume / strict_threshold) * 10)
AnomalyVolumeScore(today_volume, threshold) ==
    Min(30 * Unit, ScaledDiv(today_volume * threshold.d * 10, threshold.n, 2))

\* price_score = min(20, change_pct * 5)
PriceScore(change) == Min(20 * Unit, change * (Unit \div 2))

\* anomaly_type: the names of the passing modes, in the order the code appends them
\* (the code's labels are Chinese strings; they are given here by the mode they name)
AnomalyType(strict, loose, recent) ==
    (IF strict THEN <<"strict">> ELSE <<>>)
    \o (IF recent THEN <<"recent-breakthrough">> ELSE <<>>)
    \o (IF loose THEN <<"loose">> ELSE <<>>)

\* anomaly_info = {...}
AnomalyInfo(info, historical, recent, strictT, looseT, overStrict, overLoose, overStrictRecent, strict, loose, recentB) ==
    LET breakthrough == BreakthroughScore(strict, loose, recentB)
        volume == AnomalyVolumeScore(info.today_volume, strictT)
        price == PriceScore(info.change_pct)
        historical_max == MaxSeq(Volumes(historical))
    IN  [code |-> info.code,
         current_price |-> info.current_price,
         change_pct |-> info.change_pct,
         today_volume |-> info.today_volume,
         strict_threshold |-> strictT,
         loose_threshold |-> looseT,
         historical_max |-> historical_max,
         recent_max |-> MaxSeq(Volumes(recent)),
         over_strict_days |-> Len(overStrict),
         over_loose_days |-> Len(overLoose),
         over_strict_recent |-> Len(overStrictRecent),
         breakthrough_score |-> breakthrough,
         volume_score |-> volume,
         price_score |-> price,
         anomaly_score |-> breakthrough + volume + price,
         anomaly_type |-> AnomalyType(strict, loose, recentB),
         is_historical_high |-> info.today_volume > historical_max]

\* Inputs of the workflow: the snapshot, and a history at volume 5 with the
\* days `spikes` (counted back from today) at volume `level`.
WorkflowSnapshots ==
    [code : {"600000"}, current_price : {10}, change_pct : {2, 10, 50},
     today_volume : {4, 10, 20, 22}]

SpikeDays == {1, 15, 16, 60}

SpikeLevels == {6, 10, 11, 12, 13}

WorkflowLengths ==
    {0, VolumeAnomalyWorkflow.kline_days - 1}
    \cup {VolumeAnomalyWorkflow.kline_days + e : e \in 1..MaxExtraBars}

WorkflowShapes ==
    (WorkflowLengths \X {{}} \X {10})
    \cup ({VolumeAnomalyWorkflow.kline_days} \X (SUBSET SpikeDays) \X SpikeLevels)

WorkflowAnswer(shape, info) ==
    [i \in 1..shape[1] |->
        [date |-> i,
         volume |-> IF i = shape[1] THEN info.today_volume
                    ELSE IF (shape[1] - i) \in shape[2] THEN shape[3]
                    ELSE 5,
         close |-> info.current_price, change_pct |-> info.change_pct]]

\* The history of the documented scenario A: the ten volumes 8, 9, 10, 11, 9,
\* 10, 8, 9, 10, 11 on the days 25..16 before today, volume 5 on every other
\* day, so that no day of the last 15 is above 10.
ScenarioAVolumes == <<8, 9, 10, 11, 9, 10, 8, 9, 10, 11>>

ScenarioAKline(info) ==
    [i \in 1..VolumeAnomalyWorkflow.kline_days |->
        LET back == VolumeAnomalyWorkflow.kline_days - i
        IN  [date |-> i,
             volume |-> IF back = 0 THEN info.today_volume
                        ELSE IF back \in 16..25 THEN ScenarioAVolumes[26 - back]
                        ELSE 5,
             close |-> info.current_price, change_pct |-> info.change_pct]]

\* what get_stock_kline_data can return for a snapshot
WorkflowAnswers(info) ==
    {WorkflowAnswer(shape, info) : shape \in WorkflowShapes} \cup {ScenarioAKline(info)}

InitWorkflow ==
    /\ variant = "workflow"
    /\ pc = "start"
    /\ stock_info = None
    /\ kline_data = <<>>
    /\ target_index = Unset
    /\ stable_period = <<>>
    /\ recent_period = <<>>
    /\ stable_volumes = <<>>
    /\ stable_stats = None
    /\ today_volume_ratio = None
    /\ similar_volume_days = Unset
    /\ recent_max_volume = Unset
    /\ scores = None
    /\ detection = None
    /\ returned_at = "running"
    /\ first_volume_stocks = <<>>
    /\ processed_count = 0
    /\ historical_60 = <<>>
    /\ recent_15 = <<>>
    /\ strict_threshold = None
    /\ loose_threshold = None
    /\ over_strict_days = <<>>
    /\ over_loose_days = <<>>
    /\ over_strict_recent = <<>>
    /\ over_loose_recent = <<>>
    /\ is_strict_anomaly = FALSE
    /\ is_loose_anomaly = FALSE
    /\ is_recent_breakthrough = FALSE
    /\ anomaly_stocks = <<>>
    /\ BatchConstructed
    /\ ListNotFetched

\* analyze_volume_anomaly entry: the two snapshot filters
WorkflowStart(info) ==
    /\ pc = "start"
    /\ variant = "workflow"
    /\ stock_info' = info
    /\ IF info.today_volume < VolumeAnomalyWorkflow.min_volume
       THEN Return("VolumeTooSmall", None)
       ELSE IF info.change_pct < VolumeAnomalyWorkflow.min_change_pct
       THEN Return("ChangeTooSmall", None)
       ELSE Goto("fetch")
    /\ UNCHANGED <<listVars, batchVars, variant, kline_data, processed_count, similarVars, workflowVars>>

\* kline_data = self.get_stock_kline_data(stock_code, days=61)
WorkflowGetKline(kline) ==
    /\ pc = "fetch"
    /\ variant = "workflow"
    /\ kline_data' = kline
    /\ Goto("count")
    /\ UNCHANGED <<listVars, batchVars, variant, stock_info, processed_count, similarVars, workflowVars>>

\* the length check, the thresholds and the four breach lists
CountBreaches ==
    /\ pc = "count"
    /\ IF Len(kline_data) < VolumeAnomalyWorkflow.kline_days
       THEN /\ Return("TooFewBars", None)
            /\ UNCHANGED <<historical_60, recent_15, strict_threshold, loose_threshold,
                           over_strict_days, over_loose_days, over_strict_recent,
                           over_loose_recent>>
       ELSE /\ historical_60' = HistoricalSlice(kline_data)
            /\ strict_threshold' = ThresholdOf(stock_info.today_volume,
                                               VolumeAnomalyWorkflow.strict_threshold)
            /\ loose_threshold' = ThresholdOf(stock_info.today_volume,
                                              VolumeAnomalyWorkflow.loose_threshold)
            /\ over_strict_days' = OverDays(historical_60', strict_threshold')
            /\ over_loose_days' = OverDays(historical_60', loose_threshold')
            /\ recent_15' = RecentDaysSlice(historical_60')
            /\ over_strict_recent' = OverDays(recent_15', strict_threshold')
            /\ over_loose_recent' = OverDays(recent_15', loose_threshold')
            /\ Goto("classify")
    /\ UNCHANGED <<listVars, batchVars, variant, stock_info, kline_data, processed_count, similarVars,
                   is_strict_anomaly, is_loose_anomaly, is_recent_breakthrough,
                   anomaly_stocks>>

\* the three modes
Classify ==
    /\ pc = "classify"
    /\ is_strict_anomaly' = StrictAnomaly(over_strict_days)
    /\ is_loose_anomaly' = LooseAnomaly(over_loose_days, over_strict_recent)
    /\ is_recent_breakthrough' = RecentBreakthrough(over_strict_recent)
    /\ Goto("decide")
    /\ UNCHANGED <<listVars, batchVars, variant, stock_info, kline_data, processed_count, similarVars,
                   historical_60, recent_15, strict_threshold, loose_threshold,
                   over_strict_days, over_loose_days, over_strict_recent,
                   over_loose_recent, anomaly_stocks>>

\* if is_anomaly: score and return anomaly_info; otherwise return None
Decide ==
    /\ pc = "decide"
    /\ IF IsAnomaly(is_strict_anomaly, is_loose_anomaly, is_recent_breakthrough)
       THEN Return("Accepted",
                   AnomalyInfo(stock_info, historical_60, recent_15, strict_threshold,
                               loose_threshold, over_strict_days, over_loose_days,
                               over_strict_recent, is_strict_anomaly, is_loose_anomaly,
                               is_recent_breakthrough))
       ELSE Return("NotFirstOccurrence", None)
    /\ UNCHANGED <<listVars, batchVars, variant, stock_info, kline_data, processed_count, similarVars,
                   workflowVars>>

\* process_single_stock after the analysis: count the symbol, append an anomaly
WorkflowRecordResult ==
    /\ pc = "returned"
    /\ variant = "workflow"
    /\ processed_count' = processed_count + 1
    /\ anomaly_stocks' = IF detection # None
                         THEN Append(anomaly_stocks, detection)
                         ELSE anomaly_stocks
    /\ pc' = "done"
    /\ UNCHANGED <<listVars, batchVars, variant, stock_info, kline_data, detection, returned_at, similarVars,
                   historical_60, recent_15, strict_threshold, loose_threshold,
                   over_strict_days, over_loose_days, over_strict_recent,
                   over_loose_recent, is_strict_anomaly, is_loose_anomaly,
                   is_recent_breakthrough>>

NextWorkflow ==
    \/ pc = "start" /\ \E info \in WorkflowSnapshots : WorkflowStart(info)
    \/ pc = "fetch" /\ \E kline \in WorkflowAnswers(stock_info) :
          WorkflowGetKline(kline)
    \/ CountBreaches
    \/ Classify
    \/ Decide
    \/ WorkflowRecordResult

SpecWorkflow == InitWorkflow /\ [][NextWorkflow]_vars

(***************************************************************************)
(* The batch: main, detect_all_first_volume and the pool tasks             *)
(* process_single_stock of TodayFirstVolumeDetector.  The relaxed strategy *)
(* and the workflow run the same code on their own list.                   *)
(***************************************************************************)

\* everything the analysis of a single symbol keeps; a batch leaves it alone
analysisVars ==
    <<variant, pc, stock_info, kline_data, target_index, stable_period, recent_period,
      stable_volumes, stable_stats, today_volume_ratio, similar_volume_days,
      recent_max_volume, scores, detection, returned_at, workflowVars>>

\* max_workers of main()
MaxWorkers == 3

\* a pre-filter that leaves out the condition on today's volume
PreFilterPassesAnyVolume(info) ==
    /\ cfg.min_price <= info.current_price /\ info.current_price <= cfg.max_price
    /\ cfg.today_change_min <= info.change_pct /\ info.change_pct <= cfg.today_change_max

\* the pre-filter of detect_all_first_volume: min_price <= current_price <=
\* max_price, today_change_min <= change_pct <= today_change_max and
\* today_volume >= min_avg_volume
PreFilterPasses(info) ==
    /\ cfg.min_price <= info.current_price /\ info.current_price <= cfg.max_price
    /\ cfg.today_change_min <= info.change_pct /\ info.change_pct <= cfg.today_change_max
    /\ FracLe(cfg.min_avg_volume, Frac(info.today_volume, 1))

\* the rows of the stock list for the symbol `s`: some pass the pre-filter,
\* some are too dear, fall, or trade too little
StockListRows(s) ==
    [code : {600000 + s}, current_price : {10}, change_pct : {20}, today_volume : {7, 20, 30}]
    \cup [code : {600000 + s}, current_price : {41}, change_pct : {20}, today_volume : {20}]
    \cup [code : {600000 + s}, current_price : {10}, change_pct : {0 - 5}, today_volume : {20}]

\* the rows that are submitted: filtered_stocks
BatchSnapshots(s) == {info \in StockListRows(s) : PreFilterPasses(info)}

\* What the request of get_stock_kline_data meets: `raises` for a timeout or an
\* error status, `shape` for the bars in the body of the response.
BatchAnswers ==
    [raises : {TRUE}, shape : {<<FullLength, PlainStable, PlainRecent>>}]
    \cup [raises : {FALSE},
          shape : {<<5, PlainStable, PlainRecent>>, <<FullLength, PlainStable, PlainRecent>>}]

\* a request that parses the body without response.raise_for_status()
GetStockKlineDataUnchecked(answer, info) == FeedAnswer(answer.shape, info)

\* get_stock_kline_data: [] when the request raises, else the parsed bars
GetStockKlineData(answer, info) ==
    IF answer.raises THEN <<>> ELSE FeedAnswer(answer.shape, info)

\* analyze_today_first_volume as a function of the snapshot and the bars
AnalysisResult(info, kline) ==
    IF ~BaseFilterPasses(info) \/ Len(kline) < cfg.min_kline THEN None
    ELSE LET recent == RecentSlice(kline)
             stable == StableSlice(kline)
             vols == PositiveVolumes(stable)
         IN  IF WindowTooShort(stable, recent) \/ TooFewValid(vols) THEN None
             ELSE LET st == StableStats(vols)
                      ratio == RatioToAvg(info.today_volume, st)
                      similar == CountSimilar(Volumes(recent), st, ratio)
                      recent_max == RecentMax(Volumes(recent))
                  IN  IF TooThin(st) \/ Unstable(st) THEN None
                      ELSE IF ~RatioInBand(ratio) THEN None
                      ELSE IF ~IsFirstVolume(similar) THEN None
                      ELSE LET sc == Scores(info, st, ratio, similar, recent_max)
                           IN  IF BelowThreshold(sc.total_score) THEN None
                               ELSE DetectionResult(info, st, ratio, similar,
                                                    recent_max, sc)

\* list.sort(key=lambda x: x['quality_score'], reverse=True): a stable sort, so
\* detections of equal score keep the order in which they were appended
InsertByScore(sorted, d) ==
    LET k == Cardinality({i \in 1..Len(sorted) :
                             sorted[i].quality_score >= d.quality_score})
    IN  SubSeq(sorted, 1, k) \o <<d>> \o SubSeq(sorted, k + 1, Len(sorted))

RECURSIVE SortByQualityScore(_)
SortByQualityScore(list) ==
    IF list = <<>> THEN <<>>
    ELSE InsertByScore(SortByQualityScore(SubSeq(list, 1, Len(list) - 1)),
                       list[Len(list)])

Submitted == {s \in Symbols : task[s] # "unsubmitted"}

Running == {s \in Symbols : task[s] \notin {"unsubmitted", "queued", "finished"}}

\* a wait that returns as soon as one task is done
AnyFinished == \E s \in Submitted : task[s] = "finished"

\* concurrent.futures.wait(futures) and the exit of the `with` block
AllFinished == \A s \in Submitted : task[s] = "finished"

\* a lock that lets everybody in
LockAlwaysFree == TRUE

\* self.lock can be acquired
LockFree == lock = 0

\* an interrupt handler that only logs
SavedOnInterruptNothing(list) == NoSave

\* main: if detector.first_volume_stocks: detector.save_results()
SavedOnInterrupt(list) ==
    IF list # <<>> THEN [called |-> TRUE, stocks |-> list] ELSE NoSave

InitBatch == Init /\ variant = "tow"

\* the stock lists a batch can be run on: the symbols that pass the pre-filter,
\* in any order
BatchOrders ==
    {stocks \in UNION {[1..n -> Symbols] : n \in 1..Cardinality(Symbols)} :
        \A i, j \in DOMAIN stocks : i # j => stocks[i] # stocks[j]}

\* detect_all_first_volume is called and has filtered the stock list
StartBatch(stocks) ==
    /\ batch_pc \in {"constructed", "ranked"}
    /\ submissions + Len(stocks) <= MaxSubmissions
    /\ run' = run + 1
    /\ batch_pc' = "submit"
    /\ filtered_stocks' = stocks
    /\ task' = [s \in Symbols |-> "unsubmitted"]
    /\ snapshot' = [s \in Symbols |-> None]
    /\ result' = [s \in Symbols |-> None]
    /\ count_read' = [s \in Symbols |-> 0]
    /\ raised' = [s \in Symbols |-> FALSE]
    /\ stocks_at_start' = first_volume_stocks
    /\ count_at_start' = processed_count
    /\ UNCHANGED <<listVars, analysisVars, first_volume_stocks, processed_count, lock, saved,
                   interrupted, submissions>>

\* executor.submit(self.process_single_stock, stock), in the order of
\* filtered_stocks (sorted by today_volume, largest first)
Submit(s, info) ==
    LET k == Cardinality(Submitted) + 1
    IN  /\ batch_pc = "submit"
        /\ k <= Len(filtered_stocks)
        /\ s = filtered_stocks[k]
        /\ k > 1 => snapshot[filtered_stocks[k - 1]].today_volume >= info.today_volume
        /\ task' = [task EXCEPT ![s] = "queued"]
        /\ snapshot' = [snapshot EXCEPT ![s] = info]
        /\ submissions' = submissions + 1
        /\ batch_pc' = IF k = Len(filtered_stocks) THEN "wait" ELSE "submit"
        /\ UNCHANGED <<listVars, analysisVars, first_volume_stocks, processed_count, run, result,
                       lock, count_read, saved, interrupted, filtered_stocks, raised,
                       stocks_at_start, count_at_start>>

\* a pool thread takes the task
StartTask(s) ==
    /\ task[s] = "queued"
    /\ Cardinality(Running) < MaxWorkers
    /\ task' = [task EXCEPT ![s] = "analyzing"]
    /\ UNCHANGED <<listVars, analysisVars, first_volume_stocks, processed_count, batch_pc, run,
                   snapshot, result, lock, count_read, saved, interrupted,
                   filtered_stocks, submissions, raised, stocks_at_start, count_at_start>>

\* detection = self.analyze_today_first_volume(stock), the request included
AnalyzeTask(s, answer) ==
    /\ task[s] = "analyzing"
    /\ result' = [result EXCEPT ![s] =
                     AnalysisResult(snapshot[s], GetStockKlineData(answer, snapshot[s]))]
    /\ raised' = [raised EXCEPT ![s] = answer.raises]
    /\ task' = [task EXCEPT ![s] = "ready"]
    /\ UNCHANGED <<listVars, analysisVars, first_volume_stocks, processed_count, batch_pc, run,
                   snapshot, lock, count_read, saved, interrupted, filtered_stocks,
                   submissions, stocks_at_start, count_at_start>>

\* with self.lock:
Acquire(s) ==
    /\ task[s] = "ready"
    /\ LockFree
    /\ lock' = s
    /\ task' = [task EXCEPT ![s] = "locked"]
    /\ UNCHANGED <<listVars, analysisVars, first_volume_stocks, processed_count, batch_pc, run,
                   snapshot, result, count_read, saved, interrupted, filtered_stocks,
                   submissions, raised, stocks_at_start, count_at_start>>

\* self.processed_count += 1: the read
ReadCount(s) ==
    /\ task[s] = "locked"
    /\ count_read' = [count_read EXCEPT ![s] = processed_count]
    /\ task' = [task EXCEPT ![s] = "counting"]
    /\ UNCHANGED <<listVars, analysisVars, first_volume_stocks, processed_count, batch_pc, run,
                   snapshot, result, lock, saved, interrupted, filtered_stocks,
                   submissions, raised, stocks_at_start, count_at_start>>

\* a counter that counts the accepted symbols only
ProcessedAfterAcceptedOnly(read, found) == IF found # None THEN read + 1 ELSE read

\* self.processed_count += 1, for a symbol accepted or not
ProcessedAfter(read, found) == read + 1

\* self.processed_count += 1: the write; if detection: append
WriteCountAppend(s) ==
    /\ task[s] = "counting"
    /\ processed_count' = ProcessedAfter(count_read[s], result[s])
    /\ first_volume_stocks' = IF result[s] # None
                              THEN Append(first_volume_stocks, result[s])
                              ELSE first_volume_stocks
    /\ task' = [task EXCEPT ![s] = "delaying"]
    /\ UNCHANGED <<listVars, analysisVars, batch_pc, run, snapshot, result, lock, count_read,
                   saved, interrupted, filtered_stocks, submissions, raised,
                   stocks_at_start, count_at_start>>

\* a lock taken with acquire() and never released
LockKeptAfterBlock(s) == lock

\* the exit of `with self.lock`, which releases the lock
LockAfterBlock(s) == IF lock = s THEN 0 ELSE lock

\* self._random_delay() returns and the `with self.lock` block ends; an
\* exception raised inside the block leaves it the same way, releasing the lock,
\* and is caught by the `except Exception` of process_single_stock
Release(s) ==
    /\ task[s] = "delaying"
    /\ lock' = LockAfterBlock(s)
    /\ task' = [task EXCEPT ![s] = "finished"]
    /\ UNCHANGED <<listVars, analysisVars, first_volume_stocks, processed_count, batch_pc, run,
                   snapshot, result, count_read, saved, interrupted, filtered_stocks,
                   submissions, raised, stocks_at_start, count_at_start>>

\* concurrent.futures.wait(futures) returns and the pool is shut down
Join ==
    /\ batch_pc = "wait"
    /\ AllFinished
    /\ batch_pc' = "sort"
    /\ UNCHANGED <<listVars, analysisVars, first_volume_stocks, processed_count, run, task,
                   snapshot, result, lock, count_read, saved, interrupted,
                   filtered_stocks, submissions, raised, stocks_at_start, count_at_start>>

\* self.first_volume_stocks.sort(key=..., reverse=True)
SortResults ==
    /\ batch_pc = "sort"
    /\ first_volume_stocks' = SortByQualityScore(first_volume_stocks)
    /\ batch_pc' = "ranked"
    /\ UNCHANGED <<listVars, analysisVars, processed_count, run, task, snapshot, result, lock,
                   count_read, saved, interrupted, filtered_stocks, submissions, raised,
                   stocks_at_start, count_at_start>>

\* main after detect_all_first_volume returned: detector.save_results()
SaveResults ==
    /\ batch_pc = "ranked"
    /\ saved' = IF first_volume_stocks # <<>>
                THEN [called |-> TRUE, stocks |-> first_volume_stocks]
                ELSE NoSave
    /\ batch_pc' = "exit"
    /\ UNCHANGED <<listVars, analysisVars, first_volume_stocks, processed_count, run, task,
                   snapshot, result, lock, count_read, interrupted, filtered_stocks,
                   submissions, raised, stocks_at_start, count_at_start>>

\* KeyboardInterrupt in the main thread.  Inside the `with` block the executor
\* first waits for the submitted tasks; a second interrupt ends that wait.
Interrupt ==
    /\ batch_pc \in {"submit", "wait", "unwinding", "sort", "ranked"}
    /\ interrupted' = TRUE
    /\ batch_pc' = IF batch_pc \in {"submit", "wait"} THEN "unwinding" ELSE "handler"
    /\ UNCHANGED <<listVars, analysisVars, first_volume_stocks, processed_count, run, task,
                   snapshot, result, lock, count_read, saved, filtered_stocks,
                   submissions, raised, stocks_at_start, count_at_start>>

\* the executor's shutdown(wait=True) returns and the interrupt goes on to main
Unwound ==
    /\ batch_pc = "unwinding"
    /\ AllFinished
    /\ batch_pc' = "handler"
    /\ UNCHANGED <<listVars, analysisVars, first_volume_stocks, processed_count, run, task,
                   snapshot, result, lock, count_read, saved, interrupted,
                   filtered_stocks, submissions, raised, stocks_at_start, count_at_start>>

\* main: except KeyboardInterrupt
HandleInterrupt ==
    /\ batch_pc = "handler"
    /\ saved' = SavedOnInterrupt(first_volume_stocks)
    /\ batch_pc' = "exit"
    /\ UNCHANGED <<listVars, analysisVars, first_volume_stocks, processed_count, run, task,
                   snapshot, result, lock, count_read, interrupted, filtered_stocks,
                   submissions, raised, stocks_at_start, count_at_start>>

NextBatch ==
    \/ batch_pc \in {"constructed", "ranked"} /\ \E stocks \in BatchOrders :
          StartBatch(stocks)
    \/ batch_pc = "submit" /\ \E s \in Symbols : \E info \in BatchSnapshots(s) :
          Submit(s, info)
    \/ \E s \in Symbols : StartTask(s)
    \/ \E s \in Symbols : task[s] = "analyzing" /\ \E answer \in BatchAnswers :
          AnalyzeTask(s, answer)
    \/ \E s \in Symbols : Acquire(s)
    \/ \E s \in Symbols : ReadCount(s)
    \/ \E s \in Symbols : WriteCountAppend(s)
    \/ \E s \in Symbols : Release(s)
    \/ Join
    \/ SortResults
    \/ SaveResults
    \/ Interrupt
    \/ Unwound
    \/ HandleInterrupt

SpecBatch == InitBatch /\ [][NextBatch]_vars

\* the next step of process_single_stock for one symbol
WorkerStep(s) ==
    \/ StartTask(s)
    \/ \E answer \in BatchAnswers : AnalyzeTask(s, answer)
    \/ Acquire(s)
    \/ ReadCount(s)
    \/ WriteCountAppend(s)
    \/ Release(s)

\* the next step of detect_all_first_volume in the main thread
MainStep ==
    \/ \E s \in Symbols : \E info \in BatchSnapshots(s) : Submit(s, info)
    \/ Join
    \/ SortResults

\* A pool thread that can take a step takes it, every request returns or
\* raises (timeout=10), and the main thread goes on submitting, joining and
\* sorting.  Nothing is assumed about interrupts or about further batches.
BatchFairness ==
    /\ \A s \in Symbols : WF_vars(WorkerStep(s))
    /\ WF_vars(MainStep)

SpecBatchFair == SpecBatch /\ BatchFairness

(***************************************************************************)
(* get_shanghai_a_stocks: the pages of the stock list                      *)
(***************************************************************************)

\* page_size = 50
PageSize == 50

\* the upper end given to range() in the page loop
PageRangeEnd == 50

\* total_pages = (total_count + page_size - 1) // page_size
TotalPages(total_count) == (total_count + PageSize - 1) \div PageSize

\* range(1, min(total_pages + 1, 50))
LoopPages(pages) == [i \in 1..(Min(pages + 1, PageRangeEnd) - 1) |-> i]

\* What the first request can meet: it raises or answers rc != 0 (`failed`),
\* or reports the number of stocks of the market.
FirstAnswers ==
    [failed : {TRUE}, total : {0}]
    \cup [failed : {FALSE}, total : {0, 1, 50, 51, 2450, 2451, 2500, 2501, 3000}]

\* the pages whose request can fail
FailingPages == {1, 2, 49, 50}

\* the first request, for data.total
GetTotal(answer) ==
    /\ list_pc = "call"
    /\ IF answer.failed
       THEN list_pc' = "returned" /\ UNCHANGED total_pages
       ELSE list_pc' = "loop" /\ total_pages' = TotalPages(answer.total)
    /\ UNCHANGED <<analysisVars, batchVars, first_volume_stocks, processed_count,
                   pages_requested, all_stocks>>

\* one pass of the loop body: the request of the next page; its rows are
\* appended unless the request raises or answers rc != 0
GetPage(fails) ==
    LET page == Len(pages_requested) + 1
    IN  /\ list_pc = "loop"
        /\ page <= Len(LoopPages(total_pages))
        /\ fails => page \in FailingPages
        /\ pages_requested' = Append(pages_requested, LoopPages(total_pages)[page])
        /\ all_stocks' = IF fails THEN all_stocks
                         ELSE Append(all_stocks, LoopPages(total_pages)[page])
        /\ UNCHANGED <<analysisVars, batchVars, first_volume_stocks, processed_count,
                       list_pc, total_pages>>

\* the loop is exhausted: return all_stocks
ReturnStocks ==
    /\ list_pc = "loop"
    /\ Len(pages_requested) = Len(LoopPages(total_pages))
    /\ list_pc' = "returned"
    /\ UNCHANGED <<analysisVars, batchVars, first_volume_stocks, processed_count,
                   total_pages, pages_requested, all_stocks>>

InitList == Init /\ variant = "tow"

NextList ==
    \/ list_pc = "call" /\ \E answer \in FirstAnswers : GetTotal(answer)
    \/ \E fails \in BOOLEAN : GetPage(fails)
    \/ ReturnStocks

SpecList == InitList /\ [][NextList]_vars

(***************************************************************************)
(* Claims                                                                  *)
(***************************************************************************)

Partitioned ==
    /\ variant \in {"tow", "relaxed"}
    /\ pc \notin {"start", "fetch", "partition"}
    /\ returned_at # "BaseFilter"

\* C1: for every bar history with at least stable_days + recent_days + 1 bars
\* the partitioner yields a stable window of exactly stable_days bars,
\* immediately followed by a recent window of exactly recent_days bars,
\* immediately followed by today (the last bar); the dates of the stable
\* window, of the recent window and of today are pairwise disjoint.
C1_WindowPartition ==
    (Partitioned /\ Len(kline_data) >= NeededBars) =>
        LET n == Len(kline_data)
            s == cfg.stable_days
            r == cfg.recent_check_days
            today == kline_data[n]
        IN  /\ returned_at \notin {"TooFewBars", "WindowTooShort"}
            /\ Len(stable_period) = s
            /\ Len(recent_period) = r
            /\ \A i \in 1..s : stable_period[i] = kline_data[n - r - s - 1 + i]
            /\ \A i \in 1..r : recent_period[i] = kline_data[n - r - 1 + i]
            /\ Dates(stable_period) \cap Dates(recent_period) = {}
            /\ today.date \notin Dates(stable_period) \cup Dates(recent_period)

\* C1 witness: a history longer than needed has been partitioned
C1_Witness ==
    /\ Partitioned
    /\ Len(kline_data) > NeededBars
    /\ pc = "stability"

\* the locals of one analysis: what the stages compute
AnalysisLocals ==
    <<stock_info, kline_data, target_index, stable_period, recent_period, stable_volumes,
      stable_stats, today_volume_ratio, similar_volume_days, recent_max_volume, scores>>

\* a detection is accepted only with every stage's product computed and passing
AcceptedPassedEveryStage ==
    returned_at = "Accepted" =>
        /\ stable_stats # None
        /\ today_volume_ratio # None
        /\ similar_volume_days # Unset
        /\ scores # None
        \* baseline mean >= min_avg_volume
        /\ stable_stats.stable_avg.n * cfg.min_avg_volume.d
              >= cfg.min_avg_volume.n * stable_stats.stable_avg.d
        \* cv <= max_cv, on the squares
        /\ stable_stats.cv_squared.d > 0
        /\ stable_stats.cv_squared.n * cfg.max_cv.d * cfg.max_cv.d
              <= cfg.max_cv.n * cfg.max_cv.n * stable_stats.cv_squared.d
        \* min ratio <= today's ratio <= max ratio
        /\ cfg.today_volume_min_ratio.n * today_volume_ratio.d
              <= today_volume_ratio.n * cfg.today_volume_min_ratio.d
        /\ today_volume_ratio.n * cfg.today_volume_max_ratio.d
              <= cfg.today_volume_max_ratio.n * today_volume_ratio.d
        /\ similar_volume_days <= cfg.max_similar_days
        /\ scores.total_score >= cfg.score_threshold * Unit

\* the accepted list holds nothing but the detection of an accepted analysis
AcceptedListOnlyAccepted ==
    \A i \in 1..Len(first_volume_stocks) :
        /\ returned_at = "Accepted"
        /\ first_volume_stocks[i] = detection
        /\ detection.stable_avg_volume = stable_stats.stable_avg
        /\ detection.today_volume_ratio = today_volume_ratio
        /\ detection.similar_volume_days = similar_volume_days
        /\ detection.quality_score = scores.total_score

\* a step moves from a stage to the next one or to the return, each stage's
\* product is written in its own stage only, and nothing is computed after a return
StagesInOrder ==
    /\ pc = "start" => pc' \in {"fetch", "locate", "returned"}
    /\ pc = "fetch" => pc' = "partition"
    /\ pc = "locate" => pc' \in {"base", "returned"}
    /\ pc \in {"partition", "base"} => pc' \in {"stability", "returned"}
    /\ pc = "stability" => pc' \in {"ratio", "returned"}
    /\ pc = "ratio" => pc' \in {"first", "returned"}
    /\ pc = "first" => pc' \in {"score", "returned"}
    /\ pc = "score" => pc' = "returned"
    /\ pc = "returned" => pc' = "done"
    /\ <<stable_volumes, stable_stats>>' # <<stable_volumes, stable_stats>> => pc = "stability"
    /\ today_volume_ratio' # today_volume_ratio => pc = "ratio"
    /\ <<similar_volume_days, recent_max_volume>>' # <<similar_volume_days, recent_max_volume>>
          => pc = "first"
    /\ scores' # scores => pc = "score"
    /\ returned_at # "running" =>
          /\ UNCHANGED <<AnalysisLocals, returned_at, detection>>
          /\ pc' = "done"
    /\ (pc' = "returned") = (returned_at = "running" /\ returned_at' # "running")

\* C2: for every symbol the stages run in the fixed order partition ->
\* stability analysis -> volume-ratio band -> first-occurrence check -> scoring;
\* a rejection at any stage is terminal (no later stage runs for that symbol),
\* and a detection enters the accepted list only if every stage passed:
\* baseline mean >= min_avg_volume, cv <= max_cv, today's ratio inside the band,
\* similar-day count <= max_similar_days and total score >= the score threshold.
C2_StagesInOrderAcceptedPassedAll ==
    /\ [](AcceptedPassedEveryStage /\ AcceptedListOnlyAccepted)
    /\ [][StagesInOrder]_vars

\* C2 witness: an analysis that went through every stage and was put on the list
C2_Witness ==
    /\ pc = "done"
    /\ returned_at = "Accepted"
    /\ Len(first_volume_stocks) = 1
    /\ first_volume_stocks[1].similar_volume_days = cfg.max_similar_days

\* the bars before today, and the last recent_days of them
PriorDays == 1..(Len(kline_data) - 1)

RecentPriorDays ==
    {i \in PriorDays : i >= Len(kline_data) - VolumeAnomalyWorkflow.recent_days}

\* number of the given days whose volume is above num/den of today's volume
BreachCount(days, num, den) ==
    Cardinality({i \in days : kline_data[i].volume * den > stock_info.today_volume * num})

Classified == variant = "workflow" /\ pc \in {"decide", "returned", "done"}
                 /\ returned_at \in {"running", "Accepted", "NotFirstOccurrence"}

PassingModes ==
    (IF BreachCount(PriorDays, 1, 2) = 0 THEN {"strict"} ELSE {})
    \cup (IF BreachCount(RecentPriorDays, 1, 2) = 0 THEN {"recent-breakthrough"} ELSE {})
    \cup (IF BreachCount(PriorDays, 3, 5) <= 2 /\ BreachCount(RecentPriorDays, 1, 2) <= 1
          THEN {"loose"} ELSE {})

\* C3: the first-occurrence classifier returns exactly the set of modes whose
\* condition holds - strict iff the long-window breach count of the strict tier
\* is 0, recent-breakthrough iff the recent-window breach count of the strict
\* tier is 0, loose iff the long-window count of the loose tier is <= 2 and the
\* recent-window count of the strict tier is <= 1 - and the instrument passes
\* iff that set is non-empty; an empty set is the NotFirstOccurrence rejection.
C3_ClassifierModes ==
    Classified =>
        /\ is_strict_anomaly = ("strict" \in PassingModes)
        /\ is_recent_breakthrough = ("recent-breakthrough" \in PassingModes)
        /\ is_loose_anomaly = ("loose" \in PassingModes)
        /\ returned_at = "Accepted" =>
              /\ PassingModes # {}
              /\ {detection.anomaly_type[i] : i \in 1..Len(detection.anomaly_type)}
                    = PassingModes
        /\ returned_at = "NotFirstOccurrence" => PassingModes = {} /\ detection = None
        /\ pc = "done" =>
              Len(anomaly_stocks) = (IF PassingModes # {} THEN 1 ELSE 0)

\* C3 witness: an instrument accepted by the loose mode alone
C3_Witness ==
    /\ Classified
    /\ pc = "done"
    /\ returned_at = "Accepted"
    /\ detection.anomaly_type = <<"loose">>
    /\ BreachCount(PriorDays, 3, 5) = 2

Counted == variant = "workflow" /\ strict_threshold # None

InList(i, days) == \E k \in 1..Len(days) : days[k] = kline_data[i]

\* C4: for every tier with fraction f the threshold is today_volume * f (a
\* fraction of today's volume), and a prior day is counted as a breach, in the
\* long window and in the recent window alike, iff its volume is strictly
\* greater than the threshold: equal to the threshold is not counted, one unit
\* above is.
C4_StrictBreachBoundary ==
    Counted =>
        /\ strict_threshold.n * 2 = stock_info.today_volume * strict_threshold.d
        /\ loose_threshold.n * 5 = 3 * stock_info.today_volume * loose_threshold.d
        /\ \A i \in PriorDays :
              /\ InList(i, over_strict_days)
                    = (2 * kline_data[i].volume > stock_info.today_volume)
              /\ InList(i, over_loose_days)
                    = (5 * kline_data[i].volume > 3 * stock_info.today_volume)
              /\ InList(i, over_strict_recent)
                    = (i \in RecentPriorDays
                         /\ 2 * kline_data[i].volume > stock_info.today_volume)
              /\ InList(i, over_loose_recent)
                    = (i \in RecentPriorDays
                         /\ 5 * kline_data[i].volume > 3 * stock_info.today_volume)
        /\ Len(over_strict_days) = BreachCount(PriorDays, 1, 2)
        /\ Len(over_loose_days) = BreachCount(PriorDays, 3, 5)
        /\ Len(over_strict_recent) = BreachCount(RecentPriorDays, 1, 2)
        /\ Len(over_loose_recent) = BreachCount(RecentPriorDays, 3, 5)

\* C4 witness: days at exactly the strict threshold next to days one unit above it,
\* in the recent window and before it
C4_Witness ==
    /\ Counted
    /\ \E i \in RecentPriorDays : 2 * kline_data[i].volume = stock_info.today_volume
    /\ \E i \in PriorDays \ RecentPriorDays :
          2 * kline_data[i].volume = stock_info.today_volume
    /\ \E i \in RecentPriorDays :
          2 * (kline_data[i].volume - 1) = stock_info.today_volume
    /\ \E i \in PriorDays \ RecentPriorDays :
          2 * (kline_data[i].volume - 1) = stock_info.today_volume
    /\ Len(over_strict_days) = 2
    /\ Len(over_strict_recent) = 1

Scanned == variant \in Variants /\ similar_volume_days # Unset

\* day i of the recent window reaches num/den of today's ratio to the baseline
\* mean: volume_i / mean >= (num / den) * (today_volume / mean), mean = n / d
ReachesFractionOfToday(i, num, den) ==
    LET mean == stable_stats.stable_avg
    IN  (recent_period[i].volume * mean.d) * (den * mean.n)
            >= (num * stock_info.today_volume * mean.d) * mean.n

SimilarDays ==
    {i \in 1..Len(recent_period) :
        IF variant = "tow" THEN ReachesFractionOfToday(i, 8, 10)
        ELSE ReachesFractionOfToday(i, 7, 10)}

\* C5: in the similar-day formulation similar_day_count is the number of
\* recent-window days whose ratio to the baseline mean is >= p times today's
\* ratio to the baseline mean (p = 0.8 in TodayFirstVolumeDetector, 0.7 in
\* RelaxedFirstVolumeStrategy and StrategyValidator), and the instrument is
\* rejected with NotFirstOccurrence iff that count is > max_similar_days.
C5_SimilarDayCount ==
    /\ Scanned =>
          /\ Len(recent_period) = cfg.recent_check_days
          /\ similar_volume_days = Cardinality(SimilarDays)
          /\ pc \in {"returned", "done"} =>
                (returned_at = "NotFirstOccurrence")
                    = (similar_volume_days > cfg.max_similar_days)
    /\ returned_at = "NotFirstOccurrence" => Scanned

\* C5 witness: a rejection in which the counted days sit exactly at p times
\* today's ratio
C5_Witness ==
    /\ Scanned
    /\ pc = "done"
    /\ returned_at = "NotFirstOccurrence"
    /\ similar_volume_days = cfg.max_similar_days + 1
    /\ \A i \in SimilarDays : 10 * recent_period[i].volume = 8 * stock_info.today_volume

Scored == variant \in Variants /\ scores # None

\* C6: the total score is exactly the sum of the four sub-scores; a scored
\* instrument is accepted iff total_score >= score_threshold (a score equal to
\* the threshold is accepted); and every accepted detection retains all four
\* sub-scores and the total.
C6_TotalIsSumAcceptAtThreshold ==
    /\ Scored =>
          /\ scores.total_score
                = scores.stability_score + scores.first_score
                  + scores.volume_score + scores.change_score
          /\ (returned_at = "Accepted")
                = (scores.total_score
                     >= Unit * (CASE variant = "tow" -> 60
                                  [] variant = "relaxed" -> 50
                                  [] variant = "validator" -> 50))
          /\ (returned_at # "Accepted") = (returned_at = "ScoreBelowThreshold")
    /\ returned_at \in {"Accepted", "ScoreBelowThreshold"} => Scored
    /\ \A i \in 1..Len(first_volume_stocks) :
          LET d == first_volume_stocks[i]
          IN  /\ Scored
              /\ d.stability_score = scores.stability_score
              /\ d.first_score = scores.first_score
              /\ d.volume_score = scores.volume_score
              /\ d.change_score = scores.change_score
              /\ d.quality_score = scores.total_score

\* C6 witness: a total equal to the threshold, accepted and put on the list
C6_Witness ==
    /\ Scored
    /\ pc = "done"
    /\ scores.total_score = cfg.score_threshold * Unit
    /\ Len(first_volume_stocks) = 1
    /\ first_volume_stocks[1].quality_score = scores.total_score

\* the rejection reason that belongs to the return statement taken
ReasonOf(point) ==
    CASE point \in {"TooFewBars", "WindowTooShort"} -> "InsufficientHistory"
      [] point = "TooFewValid" -> "InsufficientStableSamples"
      [] point = "BaselineRejected" ->
            IF stable_stats.stable_avg.n * cfg.min_avg_volume.d
                  < cfg.min_avg_volume.n * stable_stats.stable_avg.d
            THEN "BaselineTooThin"
            ELSE "BaselineUnstable"
      [] OTHER -> point

AnalyticalRejections ==
    {"TooFewBars", "WindowTooShort", "TooFewValid", "BaselineRejected",
     "VolumeRatioOutOfRange", "NotFirstOccurrence", "ScoreBelowThreshold"}

\* C7: every rejected symbol is recorded with its specific rejection reason
\* (InsufficientHistory, InsufficientStableSamples, BaselineTooThin,
\* BaselineUnstable, VolumeRatioOutOfRange, NotFirstOccurrence,
\* ScoreBelowThreshold): what the analysis hands back for a rejected symbol
\* carries the symbol and the reason, a thin baseline and an unstable one
\* giving two different reasons.
C7_RejectionRecordedWithReason ==
    (variant \in {"tow", "relaxed"} /\ pc = "done"
       /\ returned_at \in AnalyticalRejections) =>
        /\ detection # None
        /\ detection.code = stock_info.code
        /\ detection.reason = ReasonOf(returned_at)

\* the bars the analysis has to work with: the feed's answer, or in the
\* validator the bars up to the target day
HistoryKnown ==
    IF variant = "validator" THEN target_index # Unset
    ELSE variant \in {"tow", "relaxed"} /\ pc \notin {"start", "fetch", "partition"}
            /\ returned_at # "BaseFilter"

AvailableBars == IF variant = "validator" THEN target_index + 1 ELSE Len(kline_data)

NothingComputed ==
    /\ stable_volumes = <<>>
    /\ stable_stats = None
    /\ today_volume_ratio = None
    /\ similar_volume_days = Unset
    /\ recent_max_volume = Unset
    /\ scores = None

\* C8: whenever the available history has fewer than stable_days +
\* recent_days + 1 bars the symbol is rejected for insufficient history, and no
\* baseline statistics, similar-day counts or scores are computed for it.
C8_InsufficientHistory ==
    (HistoryKnown /\ AvailableBars < cfg.stable_days + cfg.recent_check_days + 1) =>
        /\ pc \in {"returned", "done"}
        /\ returned_at \in {"TooFewBars", "WindowTooShort"}
        /\ detection = Failure
        /\ NothingComputed
        /\ first_volume_stocks = <<>>

\* C8 witness: an answer that passes the fixed length check of the code and is
\* still too short for the two windows
C8_Witness ==
    /\ HistoryKnown
    /\ variant = "tow"
    /\ pc = "done"
    /\ Len(kline_data) >= 22
    /\ Len(kline_data) < cfg.stable_days + cfg.recent_check_days + 1
    /\ returned_at = "WindowTooShort"

StabilityRan ==
    /\ variant \in Variants
    /\ pc \in {"ratio", "first", "score", "returned", "done"}
    /\ returned_at \notin {"BaseFilter", "TooFewBars", "WindowTooShort", "FeedError",
                           "NoTargetDate"}

PositiveDays == {i \in 1..Len(stable_period) : stable_period[i].volume > 0}

\* the statistics are those of the days with volume > 0 and of no other day
StatsOverPositiveDays ==
    /\ Len(stable_volumes) = Cardinality(PositiveDays)
    /\ \A k \in 1..Len(stable_volumes) : stable_volumes[k] > 0
    /\ stable_stats # None =>
          /\ stable_stats.stable_avg.d = Cardinality(PositiveDays)
          /\ stable_stats.stable_avg.n = SumSeq(Volumes(stable_period))
          /\ \E i \in PositiveDays : stable_stats.stable_max = stable_period[i].volume
          /\ \A i \in PositiveDays : stable_stats.stable_max >= stable_period[i].volume

\* C9 (as stated): baseline statistics are computed only over the stable-window
\* days whose volume is > 0, and the symbol is rejected for insufficient stable
\* samples iff the number of days remaining is below 80% of the stable-window days.
C9_EightyPercentOfStableDays ==
    StabilityRan =>
        /\ StatsOverPositiveDays
        /\ (returned_at = "TooFewValid")
              = (10 * Cardinality(PositiveDays) < 8 * Len(stable_period))

\* C9 (amended): baseline statistics are computed only over the stable-window
\* days whose volume is > 0, and the symbol is rejected for insufficient stable
\* samples iff fewer days remain than the variant's minimum: 15 of the 20 days
\* in TodayFirstVolumeDetector, 10 of the 10 days in RelaxedFirstVolumeStrategy,
\* 80% of the 15 days (12) in StrategyValidator.
C9_VariantMinimumOfValidDays ==
    StabilityRan =>
        /\ StatsOverPositiveDays
        /\ Len(stable_period) = (CASE variant = "tow" -> 20
                                   [] variant = "relaxed" -> 10
                                   [] variant = "validator" -> 15)
        /\ (returned_at = "TooFewValid")
              = (Cardinality(PositiveDays) < (CASE variant = "tow" -> 15
                                                [] variant = "relaxed" -> 10
                                                [] variant = "validator" -> 12))
        /\ (returned_at = "TooFewValid") = (stable_stats = None)

\* C9 witness: 15 valid days of 20 (75%) go on to the statistics
C9_Witness ==
    /\ StabilityRan
    /\ variant = "tow"
    /\ Cardinality(PositiveDays) = 15
    /\ stable_stats # None
    /\ returned_at = "Accepted"

RatioKnown == variant \in Variants /\ today_volume_ratio # None

RatioOutsideBand ==
    \/ today_volume_ratio.n * cfg.today_volume_min_ratio.d
          < cfg.today_volume_min_ratio.n * today_volume_ratio.d
    \/ today_volume_ratio.n * cfg.today_volume_max_ratio.d
          > cfg.today_volume_max_ratio.n * today_volume_ratio.d

\* C10: when today's volume ratio to the baseline mean lies outside
\* [today_volume_min_ratio, today_volume_max_ratio] the symbol is rejected
\* with VolumeRatioOutOfRange at once: the recent window is never scanned for
\* it (no similar-day count, no recent maximum) and nothing is scored.
C10_RatioRejectsBeforeScan ==
    /\ RatioKnown =>
          /\ today_volume_ratio.n * stable_stats.stable_avg.n
                = stock_info.today_volume * stable_stats.stable_avg.d * today_volume_ratio.d
          /\ RatioOutsideBand =>
                /\ pc \in {"returned", "done"}
                /\ returned_at = "VolumeRatioOutOfRange"
                /\ detection = Failure
                /\ similar_volume_days = Unset
                /\ recent_max_volume = Unset
                /\ scores = None
                /\ first_volume_stocks = <<>>
    /\ returned_at = "VolumeRatioOutOfRange" => RatioKnown /\ RatioOutsideBand

\* C10 witness: a ratio above the band, rejected without a scan
C10_Witness ==
    /\ RatioKnown
    /\ pc = "done"
    /\ returned_at = "VolumeRatioOutOfRange"
    /\ today_volume_ratio.n * cfg.today_volume_max_ratio.d
          > cfg.today_volume_max_ratio.n * today_volume_ratio.d
    /\ similar_volume_days = Unset

ScenarioA ==
    /\ variant = "workflow"
    /\ returned_at # "running"
    /\ stock_info.today_volume = 20
    /\ kline_data = ScenarioAKline(stock_info)

\* baseline of scenario A: cv <= 0.3, on the squares
ScenarioABaselinePasses ==
    LET st == StableStats(ScenarioAVolumes)
    IN  /\ st.stable_avg.n * 2 = 19 * st.stable_avg.d
        /\ st.cv_squared.n * 100 <= 9 * st.cv_squared.d

ScenarioACounts ==
    /\ strict_threshold.n = 10 * strict_threshold.d
    /\ Len(over_strict_days) = 2
    /\ Len(over_strict_recent) = 0
    /\ ScenarioABaselinePasses

\* C11 as stated: in scenario A (volumes 8, 9, 10, 11, 9, 10, 8, 9, 10, 11,
\* today's volume 20, strict fraction 0.5, threshold 10, no recent day above 10)
\* the long-window breach count of the strict tier is 2, the baseline passes,
\* strict mode passes and the instrument is accepted.
C11_ScenarioAStrictPasses ==
    ScenarioA =>
        /\ ScenarioACounts
        /\ is_strict_anomaly
        /\ returned_at = "Accepted"

\* C11 amended: in scenario A the long-window breach count of the strict tier
\* is 2 and the baseline passes; strict mode does not pass, because its count
\* is not 0; the recent-breakthrough and the loose mode pass, and the
\* instrument is accepted.
C11_ScenarioAAcceptedByRecentBreakthrough ==
    ScenarioA =>
        /\ ScenarioACounts
        /\ ~is_strict_anomaly
        /\ is_recent_breakthrough
        /\ is_loose_anomaly
        /\ returned_at = "Accepted"
        /\ detection.anomaly_type = <<"recent-breakthrough", "loose">>

\* C11 witness: scenario A was analysed, recorded and is in the list
C11_Witness ==
    /\ ScenarioA
    /\ pc = "done"
    /\ Len(over_strict_days) = 2
    /\ anomaly_stocks = <<detection>>

Ranked == batch_pc = "ranked"

\* C12: the accepted detections are returned ordered by total score, highest
\* first, and detections of equal score are ordered by symbol, ascending.
C12_RankedByScoreThenSymbol ==
    Ranked =>
        \A i, j \in 1..Len(first_volume_stocks) :
            i < j =>
                \/ first_volume_stocks[i].quality_score > first_volume_stocks[j].quality_score
                \/ /\ first_volume_stocks[i].quality_score
                         = first_volume_stocks[j].quality_score
                   /\ first_volume_stocks[i].code <= first_volume_stocks[j].code

\* the list in every order its elements can be appended in
Reorderings(list) ==
    {[i \in 1..Len(list) |-> list[q[i]]] :
        q \in {f \in [1..Len(list) -> 1..Len(list)] :
                  \A i, j \in 1..Len(list) : i # j => f[i] # f[j]}}

\* C13: the ranked output depends only on the set of accepted detections - in
\* whatever order the tasks appended them, the sort returns the same sequence.
C13_RankingIndependentOfCompletionOrder ==
    Ranked =>
        \A list \in Reorderings(first_volume_stocks) :
            SortByQualityScore(list) = first_volume_stocks

\* a task is between `with self.lock:` and the end of that block
InLock(s) == task[s] \in {"locked", "counting", "delaying"}

PoolJoined == AllFinished /\ batch_pc \in {"sort", "ranked", "handler", "exit"}

Occurrences(list, d) == Cardinality({i \in 1..Len(list) : list[i] = d})

Accepted == {s \in Submitted : result[s] # None}

\* first_volume_stocks holds what it held when the batch began and, once each,
\* the detection of every accepted symbol of the batch
HoldsExactlyTheAccepted ==
    /\ Len(first_volume_stocks) = Len(stocks_at_start) + Cardinality(Accepted)
    /\ \A s \in Accepted :
          Occurrences(first_volume_stocks, result[s])
             = Occurrences(stocks_at_start, result[s])
               + Cardinality({t \in Accepted : result[t] = result[s]})
    /\ \A i \in 1..Len(stocks_at_start) :
          Occurrences(first_volume_stocks, stocks_at_start[i])
             >= Occurrences(stocks_at_start, stocks_at_start[i])

\* C14: the append to the result list and the increment of the processed
\* counter are mutually exclusive across the pool tasks; no increment and no
\* append is lost: once the pool is joined the counter equals the number of
\* symbols submitted and the list holds exactly the accepted detections.
C14_NoLostUpdate ==
    /\ \A s, t \in Symbols : InLock(s) /\ InLock(t) => s = t
    /\ \A s \in Symbols : InLock(s) => lock = s
    /\ PoolJoined =>
          /\ processed_count = submissions
          /\ processed_count = count_at_start + Cardinality(Submitted)
          /\ HoldsExactlyTheAccepted

\* C14 witness: two tasks ran side by side, the one submitted last appended
\* first, and after the join both are counted and both detections are listed
C14_Witness ==
    /\ batch_pc = "sort"
    /\ AllFinished
    /\ filtered_stocks = <<1, 2>>
    /\ processed_count = 2
    /\ first_volume_stocks = <<result[2], result[1]>>

\* the task is inside a call that blocks: the request of the Adapter, or the
\* time.sleep of _random_delay
Blocking(s) == task[s] \in {"analyzing", "delaying"}

\* C15: the lock is held only for the append and the increment; no task holds
\* it during an Adapter call or during a blocking wait such as the delay
\* between requests.
C15_LockNotHeldWhileBlocking ==
    \A s \in Symbols : lock = s => ~Blocking(s)

BatchSymbols == {filtered_stocks[i] : i \in 1..Len(filtered_stocks)}

\* detections of the symbol `s` of the batch in a list
DetectionsOf(list, s) ==
    Cardinality({i \in 1..Len(list) : list[i].code = snapshot[s].code})

\* C16: a failure of the Adapter for one symbol never aborts the batch: every
\* other symbol is still evaluated and counted, and the failing symbol is
\* skipped.
C16_FeedFailureSkipsOnlyThatSymbol ==
    /\ \A s \in Symbols : raised[s] => result[s] = None
    /\ batch_pc \in {"sort", "ranked"} =>
          /\ Submitted = BatchSymbols
          /\ AllFinished
          /\ processed_count = count_at_start + Len(filtered_stocks)
          /\ \A s \in BatchSymbols :
                IF raised[s] \/ result[s] = None
                THEN DetectionsOf(first_volume_stocks, s)
                        = DetectionsOf(stocks_at_start, s)
                ELSE DetectionsOf(first_volume_stocks, s)
                        = DetectionsOf(stocks_at_start, s) + 1

\* C16 witness: the request of the first symbol raised, the batch was ranked
\* all the same, both symbols are counted and only the second is listed
C16_Witness ==
    /\ batch_pc = "ranked"
    /\ filtered_stocks = <<1, 2>>
    /\ raised[1] /\ ~raised[2]
    /\ processed_count = 2
    /\ result[2] # None
    /\ first_volume_stocks = <<result[2]>>

\* the list is the same but for its order, and the order changed
Reordered ==
    /\ first_volume_stocks' # first_volume_stocks
    /\ Len(first_volume_stocks') = Len(first_volume_stocks)
    /\ \A i \in 1..Len(first_volume_stocks) :
          Occurrences(first_volume_stocks', first_volume_stocks[i])
             = Occurrences(first_volume_stocks, first_volume_stocks[i])

\* every symbol of the batch has been through process_single_stock
EveryTaskCompleted == \A s \in BatchSymbols : task[s] = "finished"

SortsOnlyAfterAllTasks ==
    /\ Reordered => EveryTaskCompleted
    /\ batch_pc' \in {"sort", "ranked"} => EveryTaskCompleted'

\* C17: the result list is sorted only after every worker task has completed:
\* no step reorders the list, and the batch does not reach its sort, while a
\* task of the batch is unsubmitted or unfinished.
C17_SortAfterAllTasksComplete == [][SortsOnlyAfterAllTasks]_vars

\* C17 witness: a batch of two tasks was joined and then sorted, the detection
\* of the higher score first
C17_Witness ==
    /\ batch_pc = "ranked"
    /\ EveryTaskCompleted
    /\ Len(first_volume_stocks) = 2
    /\ first_volume_stocks[1].quality_score > first_volume_stocks[2].quality_score
    /\ first_volume_stocks = <<result[2], result[1]>>
    /\ filtered_stocks = <<1, 2>>
    /\ run = 1

\* no step removes a detection from the list
KeepsEveryDetection ==
    \A i \in 1..Len(first_volume_stocks) :
        Occurrences(first_volume_stocks', first_volume_stocks[i])
           >= Occurrences(first_volume_stocks, first_volume_stocks[i])

\* the interrupt handler of main hands the list it finds to save_results
HandlerSavesTheList ==
    batch_pc = "handler" /\ batch_pc' = "exit" /\ first_volume_stocks # <<>>
        => saved'.called /\ saved'.stocks = first_volume_stocks

\* C18: when the caller aborts the batch with an interrupt, every detection
\* accepted before the abort is still in the result list and is handed to the
\* save step.
C18_InterruptKeepsAndSavesAccepted == [][KeepsEveryDetection /\ HandlerSavesTheList]_vars

\* C18 witness: the batch was interrupted before its second symbol was
\* submitted, and the detection of the first was saved
C18_Witness ==
    /\ interrupted
    /\ batch_pc = "exit"
    /\ filtered_stocks = <<1, 2>>
    /\ task[2] = "unsubmitted"
    /\ result[1] # None
    /\ saved.called
    /\ saved.stocks = <<result[1]>>

\* C19: nothing persists between evaluations: the result list and the
\* processed counter of a batch run do not depend on earlier batch runs on the
\* same instance - a ranked batch has counted its own symbols and lists its
\* own accepted detections, whatever ran before.
C19_BatchIndependentOfEarlierRuns ==
    Ranked =>
        /\ processed_count = Len(filtered_stocks)
        /\ Len(first_volume_stocks) = Cardinality(Accepted)
        /\ \A i \in 1..Len(first_volume_stocks) :
              \E s \in Accepted : first_volume_stocks[i] = result[s]

\* C20: a failure of the Adapter is the outcome FeedError, distinguishable from
\* the analytical rejections: what the analysis returns for a symbol whose
\* request raised differs from what it returns for a symbol that was fetched
\* and rejected.
C20_FeedErrorDistinctFromRejection ==
    \A s, t \in Symbols :
        /\ task[s] = "finished" /\ raised[s]
        /\ task[t] = "finished" /\ ~raised[t]
        /\ result[t] \notin {first_volume_stocks[i] : i \in 1..Len(first_volume_stocks)}
        => result[s] # result[t]

\* C21: the long window of the breach counts is everything before today,
\* bounded to the lookback: it never contains today's bar and never more than
\* 60 bars, whatever length of history the feed returns.
C21_LongWindowBounded ==
    Counted =>
        /\ \A i \in 1..Len(historical_60) :
              historical_60[i].date # kline_data[Len(kline_data)].date
        /\ Len(historical_60) <= VolumeAnomalyWorkflow.kline_days - 1

\* baselines to compare a scored one with: flat, mildly and strongly uneven
\* volumes, and volumes whose mean is 0 (stable_cv = inf)
BaselineSamples ==
    {<<10, 10, 10>>, <<8, 9, 10, 11>>, <<5, 10, 15>>, <<1, 1, 30>>, <<1, 200>>, <<0, 0>>}

\* cv of a <= cv of b, on the rounded cv, with inf above everything
CvNotAbove(a, b) ==
    \/ b.cv_squared.d = 0
    \/ a.cv_squared.d # 0 /\ a.stable_cv <= b.stable_cv

\* C22: stability_score = max(0, W1 - cv * K1) is never negative for any
\* cv >= 0, cv = +infinity included, and it is non-increasing in cv: of two
\* baselines the one with the smaller cv scores at least as high.
C22_StabilityScoreFlooredAndMonotone ==
    Scored =>
        /\ scores.stability_score >= 0
        /\ \A vols \in BaselineSamples :
              LET other == StableStats(vols)
              IN  /\ StabilityScore(other) >= 0
                  /\ CvNotAbove(stable_stats, other)
                        => scores.stability_score >= StabilityScore(other)
                  /\ CvNotAbove(other, stable_stats)
                        => StabilityScore(other) >= scores.stability_score

\* C22 witness: a scored baseline whose cv is so large that the floor applies
C22_Witness ==
    /\ Scored
    /\ cfg.stability_k * stable_stats.stable_cv > cfg.stability_w * Unit
    /\ scores.stability_score = 0

\* the first batch of a freshly constructed detector
FirstBatch == run <= 1

\* the tasks that have been through the counting of process_single_stock
Evaluated == {s \in Symbols : task[s] \in {"delaying", "finished"}}

CountWithinBounds ==
    /\ Len(first_volume_stocks) <= processed_count
    /\ processed_count <= Cardinality(Submitted)

CountsOnePerSymbol ==
    /\ processed_count' >= processed_count
    /\ processed_count' - processed_count = Cardinality(Evaluated' \ Evaluated)
    /\ processed_count' - processed_count <= 1

\* C23: during one batch run on a freshly constructed detector the processed
\* counter never decreases, grows by exactly 1 per evaluated symbol, and in
\* every state lies between the number of accepted detections and the number
\* of submitted symbols.
C23_ProcessedCountMonotone ==
    /\ [](FirstBatch => CountWithinBounds)
    /\ [][FirstBatch' => CountsOnePerSymbol]_vars

\* C23 witness: in the first batch one of two submitted symbols has been
\* counted and rejected while the other is still being analysed
C23_Witness ==
    /\ run = 1
    /\ Cardinality(Submitted) = 2
    /\ processed_count = 1
    /\ first_volume_stocks = <<>>
    /\ \E s \in Symbols : task[s] = "analyzing"

\* C24: in TodayFirstVolumeDetector the first-occurrence sub-score stays within
\* its documented range 0..40 for every symbol that reaches scoring.
C24_FirstScoreWithinRange ==
    Scored /\ variant = "tow" =>
        /\ scores.first_score >= 0
        /\ scores.first_score <= 40 * Unit

\* C25: get_shanghai_a_stocks fetches all pages of the list up to the cap of 50
\* pages: when the feed reports N pages it requests every page 1..min(N, 50) in
\* increasing order, and a page that fails is skipped without stopping the
\* remaining pages.
C25_RequestsEveryPageUpToFifty ==
    list_pc = "returned" =>
        pages_requested = [i \in 1..Min(total_pages, 50) |-> i]

\* the feed returned no more bars than the detector asked for
NoMoreThanRequested ==
    /\ variant \in {"tow", "relaxed"}
    /\ HistoryKnown
    /\ Len(kline_data) <= cfg.kline_days

\* C26: with their built-in parameters TodayFirstVolumeDetector (25 bars
\* requested; windows of 20 and 15 days) and RelaxedFirstVolumeStrategy (20 bars
\* requested; windows of 10 and 20 days) reject every symbol whose feed returns
\* no more bars than requested: the window-length check always fails, and no
\* detection is accepted whatever the volumes are.
C26_RequestedBarsNeverFillTheWindows ==
    NoMoreThanRequested =>
        /\ cfg.kline_days < cfg.stable_days + cfg.recent_check_days + 1
        /\ pc \in {"returned", "done"}
        /\ returned_at \in {"TooFewBars", "WindowTooShort"}
        /\ Len(kline_data) >= cfg.min_kline => returned_at = "WindowTooShort"
        /\ detection = Failure
        /\ first_volume_stocks = <<>>

\* C26 witness: the relaxed strategy got the 20 bars it asked for and rejected
\* the symbol at the window-length check
C26_Witness ==
    /\ NoMoreThanRequested
    /\ variant = "relaxed"
    /\ pc = "done"
    /\ Len(kline_data) = 20
    /\ returned_at = "WindowTooShort"

\* C27: in analyze_volume_anomaly, whenever strict mode passes, the
\* recent-breakthrough and the loose mode pass too; hence the accept decision
\* equals (loose or recent-breakthrough), the set of passing modes is never
\* strict alone, and breakthrough_score only takes the values 20, 30, 50, 100.
C27_StrictImpliesTheOtherModes ==
    Classified =>
        /\ is_strict_anomaly => is_recent_breakthrough /\ is_loose_anomaly
        /\ pc \in {"returned", "done"} =>
              /\ (returned_at = "Accepted")
                    = (is_loose_anomaly \/ is_recent_breakthrough)
              /\ returned_at = "Accepted" =>
                    /\ detection.anomaly_type # <<"strict">>
                    /\ detection.breakthrough_score
                          \in {20 * Unit, 30 * Unit, 50 * Unit, 100 * Unit}

\* C27 witness: an anomaly accepted by all three modes, with breakthrough
\* score 100
C27_Witness ==
    /\ Classified
    /\ pc = "done"
    /\ is_strict_anomaly
    /\ detection.anomaly_type = <<"strict", "recent-breakthrough", "loose">>
    /\ detection.breakthrough_score = 100 * Unit

\* C28: in analyze_volume_anomaly the volume sub-score min(30, today_volume /
\* strict_threshold * 10) is 20 for every accepted detection, whatever today's
\* volume and the history are, because strict_threshold is 0.5 * today_volume;
\* anomaly_score varies only with the passing modes and the percent change.
C28_VolumeScoreAlwaysTwenty ==
    variant = "workflow" /\ returned_at = "Accepted" =>
        /\ detection.volume_score = 20 * Unit
        /\ detection.anomaly_score
              = BreakthroughScore(is_strict_anomaly, is_loose_anomaly,
                                  is_recent_breakthrough)
                + 20 * Unit + PriceScore(stock_info.change_pct)

\* C28 witness: an accepted anomaly with today's volume 22 on a history with
\* breaches, scored 20 for the volume
C28_Witness ==
    /\ variant = "workflow"
    /\ pc = "done"
    /\ returned_at = "Accepted"
    /\ stock_info.today_volume = 22
    /\ Len(over_strict_days) > 0
    /\ detection.volume_score = 20 * Unit

\* snapshots on and around every bound of the two filters
BoundarySnapshots ==
    [code : {600001},
     current_price : {cfg.min_price - 1, cfg.min_price, cfg.max_price, cfg.max_price + 1},
     change_pct : {cfg.today_change_min - 1, cfg.today_change_min, cfg.today_change_max,
                   cfg.today_change_max + 1},
     today_volume : {7, 8, 9}]

\* C29: every symbol that detect_all submits to the pool already satisfies the
\* base filter re-checked at the start of the analysis: the two filters accept
\* exactly the same snapshots, with the same inclusive bounds, so the base
\* filter of the analysis never rejects a symbol during a batch run.
C29_PreFilterEqualsBaseFilter ==
    /\ \A s \in Submitted : BaseFilterPasses(snapshot[s])
    /\ \A s \in Symbols : \A info \in StockListRows(s) \cup BoundarySnapshots :
          PreFilterPasses(info) = BaseFilterPasses(info)

\* C29 witness: a submitted symbol whose analysis went past the base filter and
\* was accepted
C29_Witness ==
    \E s \in Submitted :
        /\ task[s] = "finished"
        /\ BaseFilterPasses(snapshot[s])
        /\ result[s] # None

\* C30: a batch run terminates.  When every request returns or raises, every
\* submitted symbol is eventually processed, a worker that reaches the lock
\* eventually holds it, a held lock is eventually released (also when the
\* analysis raised), and unless the run is interrupted the join is reached and
\* the ranking step runs.
\* No task stays for ever between its submission and its end (waiting on the
\* lock included), and a task is forgotten only after it has finished; the lock
\* is free again and again; the main thread does not stay for ever in the
\* submission loop, in the join or before the sort.
C30_BatchTerminates ==
    /\ \A s \in Symbols : []<>(task[s] \in {"unsubmitted", "finished"})
    /\ [][\A s \in Symbols : task'[s] = "unsubmitted" =>
             task[s] \in {"unsubmitted", "finished"}]_vars
    /\ []<>(lock = 0)
    /\ []<>(batch_pc \notin {"submit", "wait", "sort"} \/ interrupted)

C30_Witness ==
    /\ batch_pc = "ranked"
    /\ ~interrupted
    /\ Len(filtered_stocks) = 2
    /\ EveryTaskCompleted
    /\ \E s \in Symbols : raised[s]
    /\ lock = 0

====
